---- MODULE Spec2Model ----
(***************************************************************************)
(* State-machine model of the user-management service (Django / DRF):     *)
(* the User model with its root-admin guard, the startup self-heal check,  *)
(* the management commands, the RBAC middleware and the API views.         *)
(*                                                                         *)
(* Handlers are written as operators from a database value                 *)
(*   db = [users, tokens, activities, next_id]                             *)
(* to a result [db, exc, ...]; an action commits the result of the whole   *)
(* handler.  exc = "none" means the code raised nothing.                   *)
(*                                                                         *)
(* Abstractions: timestamps (created_at, updated_at) and the client        *)
(* ip / user agent of activity records are not modelled; last_login is a   *)
(* flag (null / set); a password hash is the pair (algorithm, raw          *)
(* password), the salt being left out; an opaque token key is identified   *)
(* with the user it is bound to (OneToOne), except in SpecSession, which   *)
(* follows the keys themselves.                                            *)
(***************************************************************************)
EXTENDS Integers, Sequences, FiniteSets, TLC

VARIABLES
    users,               \* table users: id -> row
    tokens,              \* table authtoken_token: set of user ids owning a key
    activities,          \* table user_activities: sequence of rows, oldest first
    next_id,             \* AUTOINCREMENT sequence of table users
    env_ADMIN_PASSWORD,  \* os.environ['ADMIN_PASSWORD'] seen by the next process start
    started,             \* which processes of the service have run so far:
                         \* "none", "command" (management commands only), "server"
    response,            \* outcome of the last operation
    inflight,            \* change-password requests being handled, step by step
    token_keys,          \* the key of each row of authtoken_token, and how many
                         \* keys were generated so far (followed in SpecSession)
    jwt_secret           \* settings.JWT_SECRET_KEY of the deployment, None when
                         \* the settings module defines none

vars == <<users, tokens, activities, next_id, env_ADMIN_PASSWORD, started, response,
          inflight, token_keys, jwt_secret>>

-----------------------------------------------------------------------------
(* Bounds *)

MaxId == 2          \* ids the users table may hand out
MaxActs == 1        \* rows the activity table may hold
NumTestUsers == 1   \* entries of create_test_users' list that are modelled
MaxKeys == 2        \* token keys that may be generated (SpecSession)

-----------------------------------------------------------------------------
(* Values *)

NoneVal == "None"

\* pk of an instance that was never saved (self.pk is None)
NoPk == 0

\* The password texts of the model, with what the validators look at
PasswordFacts ==
    [p \in {"admin123", "Admin123!ChangeMe", "Env#Passw0rd", "TestPass123!",
            "NewPass456!", "Rotated#789", "short"} |->
        CASE p = "admin123"          -> [len |-> 8,  lower |-> TRUE, upper |-> FALSE, digit |-> TRUE,  special |-> FALSE]
          [] p = "Admin123!ChangeMe" -> [len |-> 17, lower |-> TRUE, upper |-> TRUE,  digit |-> TRUE,  special |-> TRUE]
          [] p = "Env#Passw0rd"      -> [len |-> 12, lower |-> TRUE, upper |-> TRUE,  digit |-> TRUE,  special |-> TRUE]
          [] p = "TestPass123!"      -> [len |-> 12, lower |-> TRUE, upper |-> TRUE,  digit |-> TRUE,  special |-> TRUE]
          [] p = "NewPass456!"       -> [len |-> 11, lower |-> TRUE, upper |-> TRUE,  digit |-> TRUE,  special |-> TRUE]
          [] p = "Rotated#789"       -> [len |-> 11, lower |-> TRUE, upper |-> TRUE,  digit |-> TRUE,  special |-> TRUE]
          [] p = "short"             -> [len |-> 5,  lower |-> TRUE, upper |-> FALSE, digit |-> FALSE, special |-> FALSE]]

ROLE_CHOICES == {"super_admin", "competition_admin", "teacher", "student"}

AllFields == {"userid", "username", "email", "passwd", "role", "is_system_admin",
              "is_active", "is_staff", "is_superuser", "last_login"}

\* django.contrib.auth.hashers.make_password: the encoded form is never the raw text
make_password(raw_password) == [algorithm |-> "pbkdf2_sha256", raw |-> raw_password]

\* passwd of a row created without a password (CharField default '')
EmptyPasswd == [algorithm |-> "", raw |-> ""]

\* django.contrib.auth.hashers.check_password
hashers_check_password(raw_password, encoded) ==
    /\ encoded.algorithm = "pbkdf2_sha256"
    /\ encoded.raw = raw_password

\* User.check_password
check_password(user, raw_password) == hashers_check_password(raw_password, user.passwd)

\* A new in-memory User(**kwargs): unspecified fields take the model defaults
NewUser(id, userid, username, email, role, sysadmin, staff, superuser) ==
    [id |-> id, userid |-> userid, username |-> username, email |-> email,
     passwd |-> EmptyPasswd, role |-> role, is_system_admin |-> sysadmin,
     is_active |-> TRUE, is_staff |-> staff, is_superuser |-> superuser,
     last_login |-> FALSE]

is_super_admin(user) == user.role = "super_admin" \/ user.is_superuser

is_admin(user) == user.role \in {"super_admin", "competition_admin"} \/ user.is_superuser

is_teacher(user) == user.role = "teacher"

is_system_root_admin(user) ==
    user.is_system_admin /\ user.id = 1 /\ user.userid = "admin"

\* The exceptions whose message contains the words the protection decorator looks for
RootAdminMessages == {"ValueError_userid", "ValueError_role", "ValueError_id",
                      "ValueError_deactivate", "ValueError_delete"}

\* Everything the guardian raises
GuardianErrors == RootAdminMessages \cup
    {"ValueError_new_id", "ValueError_new_userid", "ValueError_new_role",
     "SystemAdminProtectionError"}

\* The database as an operation finds it; writes counts the INSERT / UPDATE /
\* DELETE statements the operation has committed so far
DB == [users |-> users, tokens |-> tokens, activities |-> activities,
       next_id |-> next_id, writes |-> 0]

Ok(db, inst) == [db |-> db, inst |-> inst, exc |-> "none"]

Raise(db, inst, exc) == [db |-> db, inst |-> inst, exc |-> exc]

-----------------------------------------------------------------------------
(* Model layer: apps/users/models/user.py *)

\* Faulty variant of the check of User.save: the role is not compared
SaveGuard_without_role(db, self) ==
    IF self.id # NoPk /\ is_system_root_admin(self)
    THEN IF self.id \in DOMAIN db.users
         THEN LET old_user == db.users[self.id] IN
              IF old_user.userid # self.userid THEN "ValueError_userid"
              ELSE IF self.id # 1 THEN "ValueError_id"
              ELSE "none"
         ELSE IF self.id # 1 THEN "ValueError_new_id"
              ELSE IF self.userid # "admin" THEN "ValueError_new_userid"
              ELSE "none"
    ELSE "none"

\* The check User.save makes before it writes
SaveGuard(db, self) ==
    IF self.id # NoPk /\ is_system_root_admin(self)
    THEN IF self.id \in DOMAIN db.users
         THEN LET old_user == db.users[self.id] IN
              IF old_user.userid # self.userid THEN "ValueError_userid"
              ELSE IF old_user.role # self.role THEN "ValueError_role"
              ELSE IF self.id # 1 THEN "ValueError_id"
              ELSE "none"
         ELSE IF self.id # 1 THEN "ValueError_new_id"
              ELSE IF self.userid # "admin" THEN "ValueError_new_userid"
              ELSE IF self.role # "super_admin" THEN "ValueError_new_role"
              ELSE "none"
    ELSE "none"

\* unique=True on userid, username and email
UniqueConflict(db, row, fields) ==
    \E i \in DOMAIN db.users :
        /\ i # row.id
        /\ \E f \in {"userid", "username", "email"} \cap fields :
               db.users[i][f] = row[f]

\* models.Model.save: UPDATE of update_fields, or UPDATE-else-INSERT of the row
ModelSave(db, self, update_fields, force_insert) ==
    IF self.id = NoPk
    THEN LET row == [self EXCEPT !.id = db.next_id] IN
         IF UniqueConflict(db, row, AllFields)
         THEN Raise(db, self, "IntegrityError")
         ELSE Ok([db EXCEPT !.users = (row.id :> row) @@ db.users,
                            !.next_id = db.next_id + 1,
                            !.writes = db.writes + 1], row)
    ELSE IF self.id \in DOMAIN db.users
    THEN IF force_insert
         THEN Raise(db, self, "IntegrityError")
         ELSE LET old == db.users[self.id]
                  row == [f \in DOMAIN old |->
                             IF f \in update_fields THEN self[f] ELSE old[f]]
              IN IF UniqueConflict(db, row, update_fields)
                 THEN Raise(db, self, "IntegrityError")
                 ELSE Ok([db EXCEPT !.users[self.id] = row,
                                    !.writes = db.writes + 1], self)
    ELSE IF update_fields # AllFields
    THEN Raise(db, self, "DatabaseError")
    ELSE IF UniqueConflict(db, self, AllFields)
    THEN Raise(db, self, "IntegrityError")
    ELSE Ok([db EXCEPT !.users = (self.id :> self) @@ db.users,
                       !.next_id = IF self.id >= db.next_id THEN self.id + 1
                                   ELSE db.next_id,
                       !.writes = db.writes + 1], self)

\* User.save
save(db, self, update_fields, force_insert) ==
    LET guard == SaveGuard(db, self) IN
    IF guard # "none" THEN Raise(db, self, guard)
    ELSE ModelSave(db, self, update_fields, force_insert)

\* User.objects.create(**kwargs)
objects_create(db, self) == save(db, self, AllFields, TRUE)

\* User.set_password
set_password(db, self, raw_password) ==
    LET hashed == [self EXCEPT !.passwd = make_password(raw_password)] IN
    save(db, hashed, {"passwd"}, FALSE)

\* User.update_last_login_time
update_last_login_time(db, self) ==
    save(db, [self EXCEPT !.last_login = TRUE], {"last_login"}, FALSE)

\* Faulty variant of User.deactivate: the root admin is not refused
deactivate_unguarded(db, self) ==
    save(db, [self EXCEPT !.is_active = FALSE], {"is_active"}, FALSE)

\* User.deactivate
deactivate(db, self) ==
    IF is_system_root_admin(self) THEN Raise(db, self, "ValueError_deactivate")
    ELSE save(db, [self EXCEPT !.is_active = FALSE], {"is_active"}, FALSE)

\* User.activate
activate(db, self) ==
    save(db, [self EXCEPT !.is_active = TRUE], {"is_active"}, FALSE)

\* Rows of activities kept when user id is deleted (on_delete=CASCADE)
RECURSIVE WithoutUser(_, _)
WithoutUser(acts, id) ==
    IF acts = <<>> THEN <<>>
    ELSE IF Head(acts).user = id THEN WithoutUser(Tail(acts), id)
    ELSE <<Head(acts)>> \o WithoutUser(Tail(acts), id)

\* Faulty variant of User.delete: the root admin is not refused
delete_unguarded(db, self) ==
    IF self.id \notin DOMAIN db.users THEN Ok(db, self)
    ELSE Ok([db EXCEPT
                !.users = [i \in DOMAIN db.users \ {self.id} |-> db.users[i]],
                !.tokens = db.tokens \ {self.id},
                !.activities = WithoutUser(db.activities, self.id),
                !.writes = db.writes + 1], self)

\* User.delete
delete(db, self) ==
    IF is_system_root_admin(self) THEN Raise(db, self, "ValueError_delete")
    ELSE IF self.id \notin DOMAIN db.users THEN Ok(db, self)
    ELSE Ok([db EXCEPT
                !.users = [i \in DOMAIN db.users \ {self.id} |-> db.users[i]],
                !.tokens = db.tokens \ {self.id},
                !.activities = WithoutUser(db.activities, self.id),
                !.writes = db.writes + 1], self)

\* Token.objects.get_or_create(user=user)
Token_get_or_create(db, user) ==
    IF user.id \in db.tokens THEN db
    ELSE [db EXCEPT !.tokens = db.tokens \cup {user.id}, !.writes = db.writes + 1]

\* Faulty variant of request.user.auth_token.delete(): the row stays
Token_delete_kept(db, user) == db

\* request.user.auth_token.delete(); Token.DoesNotExist is passed over
Token_delete(db, user) ==
    IF user.id \notin db.tokens THEN db
    ELSE [db EXCEPT !.tokens = db.tokens \ {user.id}, !.writes = db.writes + 1]

\* No token was ever made
NoKeys == [issued |-> 0, of |-> [u \in {} |-> 0]]

\* Token.generate_key: binascii.hexlify(os.urandom(20)), 160 random bits; the
\* n-th key generated is the number n, a key no row had before
generate_key(keys) == keys.issued + 1

\* Token.save for the new rows of ids, lowest id first: a row without key gets
\* generate_key()
RECURSIVE Token_save(_, _)
Token_save(keys, ids) ==
    IF ids = {} THEN keys
    ELSE LET u == CHOOSE i \in ids : \A j \in ids : i <= j IN
         Token_save([issued |-> keys.issued + 1,
                     of |-> (u :> generate_key(keys)) @@ keys.of],
                    ids \ {u})

\* The keys of the token table after an operation took it from before to
\* after: deleted rows are gone with their key, new rows were saved
Token_keys(keys, before, after) ==
    LET kept == [issued |-> keys.issued,
                 of |-> [u \in (DOMAIN keys.of) \cap before \cap after |-> keys.of[u]]]
    IN Token_save(kept, after \ before)

\* UserActivity.objects.create(user=user, action=action)
UserActivity_create(db, user, action) ==
    [db EXCEPT !.activities = Append(db.activities, [user |-> user.id, action |-> action]),
               !.writes = db.writes + 1]

-----------------------------------------------------------------------------
(* Configuration: apps/users/config.py *)

settings_ADMIN_PASSWORD == NoneVal   \* UserService/settings.py defines none

EnvPasswords == {NoneVal, "Env#Passw0rd"}

\* SystemConfig.get_admin_password
get_admin_password(env) ==
    IF env # NoneVal THEN env
    ELSE IF settings_ADMIN_PASSWORD # NoneVal THEN settings_ADMIN_PASSWORD
    ELSE "admin123"

-----------------------------------------------------------------------------
(* Startup check: apps/users/signals.py *)

\* _create_system_admin
create_system_admin(db, env) ==
    LET password == get_admin_password(env)
        created == objects_create(db, NewUser(1, "admin", "admin", "admin@localhost",
                                              "super_admin", TRUE, TRUE, TRUE))
    IN IF created.exc # "none" THEN created
       ELSE LET hashed == set_password(created.db, created.inst, password) IN
            IF hashed.exc # "none" THEN hashed
            ELSE save(hashed.db, hashed.inst, {"passwd"}, FALSE)

\* Faulty variant of _ensure_system_admin_exists: the password is written
\* whether or not the stored hash verifies
ensure_system_admin_exists_resync(db, env) ==
    IF /\ 1 \in DOMAIN db.users
       /\ db.users[1].userid = "admin"
       /\ db.users[1].is_system_admin
    THEN LET hashed == set_password(db, db.users[1], get_admin_password(env)) IN
         IF hashed.exc # "none" THEN hashed
         ELSE save(hashed.db, hashed.inst, AllFields, FALSE)
    ELSE create_system_admin(db, env)

\* Faulty variant of _ensure_system_admin_exists: an existing account is left
\* as it is
ensure_system_admin_exists_nosync(db, env) ==
    IF /\ 1 \in DOMAIN db.users
       /\ db.users[1].userid = "admin"
       /\ db.users[1].is_system_admin
    THEN Ok(db, db.users[1])
    ELSE create_system_admin(db, env)

\* _ensure_system_admin_exists
ensure_system_admin_exists(db, env) ==
    IF /\ 1 \in DOMAIN db.users
       /\ db.users[1].userid = "admin"
       /\ db.users[1].is_system_admin
    THEN LET admin_user == db.users[1]
             config_password == get_admin_password(env)
         IN IF ~check_password(admin_user, config_password)
            THEN LET hashed == set_password(db, admin_user, config_password) IN
                 IF hashed.exc # "none" THEN hashed
                 ELSE save(hashed.db, hashed.inst, AllFields, FALSE)
            ELSE Ok(db, admin_user)
    ELSE create_system_admin(db, env)

\* ensure_system_admin_on_startup / init_system_superuser: failures are logged only.
\* The writes of a failed check that were made before the failure stay.
ensure_system_admin_on_startup(db, env) == ensure_system_admin_exists(db, env)


-----------------------------------------------------------------------------
(* Management commands: apps/users/management/commands *)

\* init_superuser: Command.get_admin_password
init_get_admin_password(env) ==
    IF env # NoneVal THEN env
    ELSE IF settings_ADMIN_PASSWORD # NoneVal THEN settings_ADMIN_PASSWORD
    ELSE "Admin123!ChangeMe"

\* init_superuser: the try block that creates the account; what it raises is
\* printed, what it wrote before stays
init_create(db, env) ==
    LET created == objects_create(db, NewUser(1, "admin", "admin", "admin@system.local",
                                              "super_admin", TRUE, TRUE, TRUE))
    IN IF created.exc # "none" THEN Ok(created.db, created.inst)
       ELSE LET hashed == set_password(created.db, created.inst, init_get_admin_password(env)) IN
            IF hashed.exc # "none" THEN Ok(hashed.db, hashed.inst)
            ELSE LET saved == save(hashed.db, hashed.inst, AllFields, FALSE) IN
                 IF saved.exc # "none" THEN Ok(saved.db, saved.inst)
                 ELSE Ok(Token_get_or_create(saved.db, saved.inst), saved.inst)

\* init_superuser: Command.handle
init_superuser(db, force, env) ==
    IF 1 \in DOMAIN db.users
    THEN LET admin_user == db.users[1] IN
         IF ~force /\ admin_user.userid = "admin" /\ admin_user.role = "super_admin"
         THEN Ok(Token_get_or_create(db, admin_user), admin_user)
         ELSE IF force
         THEN LET deleted == delete(Token_delete(db, admin_user), admin_user) IN
              IF deleted.exc # "none" THEN deleted
              ELSE init_create(deleted.db, env)
         ELSE init_create(db, env)
    ELSE init_create(db, env)

\* update_admin_password: Command.handle; save_config writes the .env file only,
\* which get_admin_password does not read
update_admin_password(db, new_password) ==
    IF PasswordFacts[new_password].len < 6 THEN Ok(db, NoneVal)
    ELSE IF /\ 1 \in DOMAIN db.users
            /\ db.users[1].userid = "admin"
            /\ db.users[1].is_system_admin
    THEN LET hashed == set_password(db, db.users[1], new_password) IN
         Ok(hashed.db, hashed.inst)
    ELSE Ok(db, NoneVal)

\* create_test_users: the list of accounts
test_users ==
    << [userid |-> "super_admin01", username |-> "super_admin01",
        email |-> "super_admin01@test.com", passwd |-> "TestPass123!", role |-> "super_admin"],
       [userid |-> "competition_admin01", username |-> "competition_admin01",
        email |-> "competition_admin01@test.com", passwd |-> "TestPass123!", role |-> "competition_admin"],
       [userid |-> "teacher01", username |-> "teacher01",
        email |-> "teacher01@test.com", passwd |-> "TestPass123!", role |-> "teacher"],
       [userid |-> "student01", username |-> "student01",
        email |-> "student01@test.com", passwd |-> "TestPass123!", role |-> "student"],
       [userid |-> "student02", username |-> "student02",
        email |-> "student02@test.com", passwd |-> "TestPass123!", role |-> "student"] >>

\* User.objects.get(userid=userid); userid is unique
UserByUserid(db, userid) ==
    CHOOSE i \in DOMAIN db.users : db.users[i].userid = userid

userid_exists(db, userid) == \E i \in DOMAIN db.users : db.users[i].userid = userid

\* create_test_users: the body of the loop for one entry; an exception skips
\* the rest of the body
create_test_user(db, user_data) ==
    IF userid_exists(db, user_data.userid)
    THEN Token_get_or_create(db, db.users[UserByUserid(db, user_data.userid)])
    ELSE LET created == objects_create(db, NewUser(NoPk, user_data.userid, user_data.username,
                                                   user_data.email, user_data.role,
                                                   FALSE, FALSE, FALSE))
         IN IF created.exc # "none" THEN created.db
            ELSE LET hashed == set_password(created.db, created.inst, user_data.passwd) IN
                 IF hashed.exc # "none" THEN hashed.db
                 ELSE LET saved == save(hashed.db, hashed.inst, AllFields, FALSE) IN
                      IF saved.exc # "none" THEN saved.db
                      ELSE Token_get_or_create(saved.db, saved.inst)

RECURSIVE create_test_users_loop(_, _)
create_test_users_loop(db, todo) ==
    IF todo = << >> THEN db
    ELSE create_test_users_loop(create_test_user(db, Head(todo)), Tail(todo))

RECURSIVE tokens_for_all(_, _)
tokens_for_all(db, ids) ==
    IF ids = {} THEN db
    ELSE LET i == CHOOSE x \in ids : TRUE IN
         tokens_for_all(Token_get_or_create(db, db.users[i]), ids \ {i})

\* create_test_users: Command.handle, over the first NumTestUsers entries of the list
create_test_users(db) ==
    LET looped == create_test_users_loop(db, SubSeq(test_users, 1, NumTestUsers)) IN
    tokens_for_all(looped, DOMAIN looped.users)

-----------------------------------------------------------------------------
(* Permissions: apps/users/permissions/definitions.py *)

Permission ==
    {"user:create", "user:read", "user:update", "user:delete", "user:list",
     "activity:read", "activity:list", "role:update", "role:read",
     "system:config", "system:monitor",
     "competition:create", "competition:read", "competition:update",
     "competition:delete", "competition:list", "competition:manage",
     "competition:review", "competition:approve", "competition:reject",
     "team:create", "team:read", "team:update", "team:delete", "team:list",
     "team:manage", "member:add", "member:remove", "member:approve"}

SUPER_ADMIN_PERMISSIONS == Permission

COMPETITION_ADMIN_PERMISSIONS ==
    {"user:read", "activity:read", "role:read",
     "competition:create", "competition:read", "competition:update",
     "competition:delete", "competition:list", "competition:manage",
     "competition:review", "competition:approve", "competition:reject",
     "team:create", "team:read", "team:update", "team:delete", "team:list",
     "team:manage", "member:add", "member:remove", "member:approve"}

TEACHER_PERMISSIONS ==
    {"user:read", "activity:read", "role:read",
     "competition:read", "competition:list", "competition:create", "competition:update",
     "team:read", "team:list", "team:create", "team:update",
     "member:add", "member:remove"}

STUDENT_PERMISSIONS ==
    {"user:read", "activity:read", "competition:read", "competition:list",
     "team:read", "team:list"}

get_role_permissions(role) ==
    CASE role = "super_admin" -> SUPER_ADMIN_PERMISSIONS
      [] role = "competition_admin" -> COMPETITION_ADMIN_PERMISSIONS
      [] role = "teacher" -> TEACHER_PERMISSIONS
      [] role = "student" -> STUDENT_PERMISSIONS
      [] OTHER -> {}

\* Faulty variant of has_permission: the permission is looked up in the
\* catalog, not in the role's set
has_permission_in_catalog(user_role, required_permission) ==
    required_permission \in Permission

has_permission(user_role, required_permission) ==
    required_permission \in get_role_permissions(user_role)

has_any_permission(user_role, required_permissions) ==
    \E perm \in required_permissions : perm \in get_role_permissions(user_role)

has_all_permissions(user_role, required_permissions) ==
    \A perm \in required_permissions : perm \in get_role_permissions(user_role)

-----------------------------------------------------------------------------
(* Requests.  A path is the sequence of its segments; every routed path ends *)
(* with a slash, so '/api/v1/users/3/' is <<"api", "v1", "users", "3">>.     *)

NoCredential == [scheme |-> "none", key |-> NoPk]

\* Authorization: Token <the key bound to user id>
TokenOf(id) == [scheme |-> "Token", key |-> id]

\* str(id) of the ids of the model
IdSegments == {ToString(i) : i \in 1..(MaxId + 1)}

\* str.isdigit on the segments of the model
isdigit(segment) == segment \in IdSegments

IsPrefix(p, path) == Len(p) <= Len(path) /\ SubSeq(path, 1, Len(p)) = p

-----------------------------------------------------------------------------
(* RBAC middleware: apps/users/middleware/rbac.py *)

PUBLIC_PATHS ==
    { <<"api", "v1", "auth", "login">>, <<"api", "v1", "auth", "logout">>,
      <<"api", "v1", "auth", "refresh">>, <<"api", "health">>, <<"api", "status">>,
      <<"api", "docs">>, <<"api", "redoc">>, <<"admin">> }

AUTH_ONLY_PATHS ==
    { <<"api", "v1", "auth", "change-password">>, <<"api", "v1", "users", "me">>,
      <<"api", "v1", "users", "deactivate">> }

PUBLIC_PATH_PREFIXES == { <<"static">>, <<"media">>, <<"api", "schema">> }

is_public_path(path) ==
    \/ path \in PUBLIC_PATHS
    \/ \E prefix \in PUBLIC_PATH_PREFIXES : IsPrefix(prefix, path)

is_auth_only_path(path) ==
    \/ path \in AUTH_ONLY_PATHS
    \/ /\ IsPrefix(<<"api", "v1", "users">>, path)
       /\ Len(path) > 3
       /\ path[Len(path)] \in {"me", "deactivate"}

\* permission_map as Python builds it: a key written twice keeps its first
\* place and its last value.  slash: the key ends with '/'
permission_map ==
    << [path |-> <<"api", "v1", "users">>, slash |-> FALSE, method |-> "GET",    perms |-> {"user:list"}],
       [path |-> <<"api", "v1", "users">>, slash |-> FALSE, method |-> "POST",   perms |-> {"user:create"}],
       [path |-> <<"api", "v1", "users">>, slash |-> TRUE,  method |-> "GET",    perms |-> {"user:read"}],
       [path |-> <<"api", "v1", "users">>, slash |-> TRUE,  method |-> "POST",   perms |-> {}],
       [path |-> <<"api", "v1", "users">>, slash |-> TRUE,  method |-> "PUT",    perms |-> {"user:update"}],
       [path |-> <<"api", "v1", "users">>, slash |-> TRUE,  method |-> "PATCH",  perms |-> {}],
       [path |-> <<"api", "v1", "users">>, slash |-> TRUE,  method |-> "DELETE", perms |-> {"user:delete"}],
       [path |-> <<"api", "v1", "activities">>, slash |-> FALSE, method |-> "GET", perms |-> {"activity:list"}],
       [path |-> <<"api", "v1", "activities">>, slash |-> TRUE,  method |-> "GET", perms |-> {"activity:read"}] >>

\* path_matches(path, pattern) on a path stripped of its last slash
path_matches(path, pattern) ==
    IF pattern.slash
    THEN IsPrefix(pattern.path, path) /\ Len(path) > Len(pattern.path)
    ELSE IsPrefix(pattern.path, path)

get_required_permissions(path, method) ==
    LET exact == {i \in 1..Len(permission_map) :
                     /\ ~permission_map[i].slash
                     /\ permission_map[i].path = path
                     /\ permission_map[i].method = method}
        matching == {i \in 1..Len(permission_map) :
                        /\ permission_map[i].method = method
                        /\ path_matches(path, permission_map[i])}
        first(S) == CHOOSE i \in S : \A j \in S : i <= j
    IN IF IsPrefix(<<"api", "v1", "users">>, path) /\ Len(path) >= 4 /\ method = "GET"
       THEN {"user:read"}
       ELSE IF exact # {} THEN permission_map[first(exact)].perms
       ELSE IF matching # {} THEN permission_map[first(matching)].perms
       ELSE IF method = "GET" THEN {"user:read"}
       ELSE {"user:update"}

\* parts[1] of the split path, when it is a number
extract_resource_id(path) ==
    IF Len(path) >= 3 /\ isdigit(path[2]) THEN path[2] ELSE NoneVal

\* TokenAuthentication.authenticate: the user, NoPk for None, or a failure
TokenAuthentication(db, cred) ==
    IF cred.scheme # "Token" THEN [exc |-> "none", user |-> NoPk]
    ELSE IF cred.key \notin db.tokens \/ cred.key \notin DOMAIN db.users
    THEN [exc |-> "AuthenticationFailed", user |-> NoPk]
    ELSE IF ~db.users[cred.key].is_active
    THEN [exc |-> "AuthenticationFailed", user |-> NoPk]
    ELSE [exc |-> "none", user |-> cred.key]

\* settings.JWT_SECRET_KEY: UserService/settings.py sets no such attribute, and
\* reading it then raises AttributeError; a deployment whose settings define
\* the signing secret has a value here
settings_JWT_SECRET_KEY == jwt_secret

\* datetime.now(), as a timestamp
Now == 2

\* Authorization: Bearer <a signed token>: whether its signature is the
\* server's, whether it has an exp claim, that claim, and its user_id claim
BearerOf(signed, has_exp, exp, user_id) ==
    [scheme |-> "Bearer", key |-> user_id, signed |-> signed,
     has_exp |-> has_exp, exp |-> exp, type |-> "access"]

\* A signed token as generate_token makes it: its type claim ('access' or
\* 'refresh'), whether its signature is the server's, its exp and user_id
TypedBearer(type, signed, exp, user_id) ==
    [BearerOf(signed, TRUE, exp, user_id) EXCEPT !.type = type]

\* Authorization: Basic ..., a scheme no authenticator knows
BasicCredential == [scheme |-> "Basic", key |-> NoPk]

\* jwt.decode(token, key, algorithms): the exception it raises, or "none"
jwt_decode(cred, key) ==
    IF key = NoneVal THEN "AttributeError"
    ELSE IF ~cred.signed THEN "InvalidTokenError"
    ELSE IF cred.has_exp /\ cred.exp <= Now THEN "ExpiredSignatureError"
    ELSE "none"

\* JWTAuthentication.is_token_expired
is_token_expired(payload) ==
    IF ~payload.has_exp \/ payload.exp = 0 THEN TRUE
    ELSE payload.exp < Now

\* Faulty variant of JWTAuthentication.authenticate: the payload is trusted
\* without verifying the token
JWTAuthentication_unverified(db, cred) ==
    IF cred.scheme # "Bearer" THEN [exc |-> "none", user |-> NoPk]
    ELSE IF cred.key \notin DOMAIN db.users \/ ~db.users[cred.key].is_active
    THEN [exc |-> "AuthenticationFailed", user |-> NoPk]
    ELSE [exc |-> "none", user |-> cred.key]

\* Faulty variant of JWTAuthentication.authenticate: the user is looked up
\* without is_active=True
JWTAuthentication_any_user(db, cred) ==
    IF cred.scheme # "Bearer" THEN [exc |-> "none", user |-> NoPk]
    ELSE IF jwt_decode(cred, settings_JWT_SECRET_KEY) # "none"
    THEN [exc |-> "AuthenticationFailed", user |-> NoPk]
    ELSE IF is_token_expired(cred)
    THEN [exc |-> "AuthenticationFailed", user |-> NoPk]
    ELSE IF cred.key = NoPk
    THEN [exc |-> "AuthenticationFailed", user |-> NoPk]
    ELSE IF cred.key \notin DOMAIN db.users
    THEN [exc |-> "AuthenticationFailed", user |-> NoPk]
    ELSE [exc |-> "none", user |-> cred.key]

\* JWTAuthentication.authenticate: the user, NoPk for None, or a failure.  Every
\* exception inside the try block leaves as AuthenticationFailed
JWTAuthentication(db, cred) ==
    IF cred.scheme # "Bearer" THEN [exc |-> "none", user |-> NoPk]
    ELSE IF jwt_decode(cred, settings_JWT_SECRET_KEY) # "none"
    THEN [exc |-> "AuthenticationFailed", user |-> NoPk]
    ELSE IF is_token_expired(cred)
    THEN [exc |-> "AuthenticationFailed", user |-> NoPk]
    ELSE IF cred.key = NoPk
    THEN [exc |-> "AuthenticationFailed", user |-> NoPk]
    ELSE IF cred.key \notin DOMAIN db.users \/ ~db.users[cred.key].is_active
    THEN [exc |-> "AuthenticationFailed", user |-> NoPk]
    ELSE [exc |-> "none", user |-> cred.key]

\* JWTAuthentication.refresh_token: the exception that leaves it ("none" when
\* it returns generate_token(user)) and the user the new tokens are for.  Only
\* jwt.InvalidTokenError is caught
JWTAuthentication_refresh_token(db, token) ==
    LET decoded == jwt_decode(token, settings_JWT_SECRET_KEY) IN
    IF decoded = "AttributeError" THEN [exc |-> "AttributeError", user |-> NoPk]
    ELSE IF decoded # "none" THEN [exc |-> "AuthenticationFailed", user |-> NoPk]
    ELSE IF token.type # "refresh" THEN [exc |-> "AuthenticationFailed", user |-> NoPk]
    ELSE IF token.key \notin DOMAIN db.users \/ ~db.users[token.key].is_active
    THEN [exc |-> "AuthenticationFailed", user |-> NoPk]
    ELSE [exc |-> "none", user |-> token.key]

\* JWTUtils.refresh_token: None (user NoPk) where the method above raises
\* AuthenticationFailed
JWTUtils_refresh_token(db, token) ==
    LET decoded == jwt_decode(token, settings_JWT_SECRET_KEY) IN
    IF decoded = "AttributeError" THEN [exc |-> "AttributeError", user |-> NoPk]
    ELSE IF decoded # "none" THEN [exc |-> "none", user |-> NoPk]
    ELSE IF token.type # "refresh" THEN [exc |-> "none", user |-> NoPk]
    ELSE IF token.key \notin DOMAIN db.users \/ ~db.users[token.key].is_active
    THEN [exc |-> "none", user |-> NoPk]
    ELSE [exc |-> "none", user |-> token.key]

\* Faulty variant of authenticate_user: when the authenticator rejects the
\* token, the key is still looked up in the token table
authenticate_user_lenient(db, cred) ==
    LET jwt == JWTAuthentication(db, cred)
        tok == TokenAuthentication(db, cred)
    IN IF jwt.exc = "none" /\ jwt.user # NoPk THEN jwt.user
       ELSE IF tok.exc = "none" /\ tok.user # NoPk THEN tok.user
       ELSE IF cred.scheme = "Token" /\ cred.key \in db.tokens THEN cred.key
       ELSE NoPk

\* RBACMiddleware.authenticate_user: the id of the user, NoPk for None
authenticate_user(db, cred) ==
    LET jwt == JWTAuthentication(db, cred)
        tok == TokenAuthentication(db, cred)
    IN IF jwt.exc = "none" /\ jwt.user # NoPk THEN jwt.user
       ELSE IF tok.exc # "none" THEN NoPk
       ELSE IF tok.user # NoPk THEN tok.user
       ELSE IF cred.scheme = "Token" /\ cred.key \in db.tokens THEN cred.key
       ELSE NoPk

check_user_permissions(user, required_permissions) ==
    \/ is_super_admin(user)
    \/ \E perm \in required_permissions : has_permission(user.role, perm)

\* '/api/users/' in path
ContainsApiUsers(path) ==
    \E i \in 1..(Len(path) - 1) : path[i] = "api" /\ path[i + 1] = "users"

check_resource_ownership(user, path, method) ==
    IF method \in {"GET", "HEAD", "OPTIONS"} THEN TRUE
    ELSE LET resource_id == extract_resource_id(path) IN
         IF resource_id = NoneVal THEN TRUE
         ELSE /\ ContainsApiUsers(path)
              /\ \/ ToString(user.id) = resource_id
                 \/ user.userid = resource_id

\* Faulty variant of process_request: the user is authenticated before the
\* path is looked up in the public lists
process_request_auth_first(db, cred, path, method) ==
    LET uid == authenticate_user(db, cred) IN
    IF uid = NoPk THEN "AUTHENTICATION_REQUIRED"
    ELSE IF is_public_path(path) THEN "allow"
    ELSE LET user == db.users[uid] IN
         IF is_auth_only_path(path)
         THEN IF ~check_resource_ownership(user, path, method)
              THEN "RESOURCE_OWNERSHIP_REQUIRED"
              ELSE "allow"
         ELSE IF ~check_user_permissions(user, get_required_permissions(path, method))
         THEN "INSUFFICIENT_PERMISSIONS"
         ELSE IF ~check_resource_ownership(user, path, method)
         THEN "RESOURCE_OWNERSHIP_REQUIRED"
         ELSE "allow"

\* RBACMiddleware.process_request: "allow" (None) or the code of the denial
process_request(db, cred, path, method) ==
    IF is_public_path(path) THEN "allow"
    ELSE LET uid == authenticate_user(db, cred) IN
         IF uid = NoPk THEN "AUTHENTICATION_REQUIRED"
         ELSE LET user == db.users[uid] IN
              IF is_auth_only_path(path)
              THEN IF ~check_resource_ownership(user, path, method)
                   THEN "RESOURCE_OWNERSHIP_REQUIRED"
                   ELSE "allow"
              ELSE IF ~check_user_permissions(user, get_required_permissions(path, method))
              THEN "INSUFFICIENT_PERMISSIONS"
              ELSE IF ~check_resource_ownership(user, path, method)
              THEN "RESOURCE_OWNERSHIP_REQUIRED"
              ELSE "allow"

\* RBACMiddleware.process_request: the user it puts in request.user, NoPk when
\* it authenticates nobody or returns before authenticating
process_request_user(db, cred, path) ==
    IF is_public_path(path) THEN NoPk ELSE authenticate_user(db, cred)

\* The status the middleware answers a denial with
DenialStatus(code) == IF code = "AUTHENTICATION_REQUIRED" THEN 401 ELSE 403

-----------------------------------------------------------------------------
(* Errors to responses *)

\* The outcome of a view: the database it leaves, the HTTP status, the code of
\* the body (None when the body has none) and the exception behind it
View(db, status, code, exc) == [db |-> db, status |-> status, code |-> code, exc |-> exc]

\* custom_exception_handler (REST_FRAMEWORK.EXCEPTION_HANDLER).  An exception DRF
\* does not know becomes 500 with code 'error'; a ValidationError whose detail is
\* a list makes the handler itself fail on response.data.get, which Django
\* answers with a bare 500
custom_exception_handler(db, exc) ==
    CASE exc = "ValidationError" -> View(db, 400, "invalid", exc)
      [] exc = "ValidationError_list" -> View(db, 500, NoneVal, exc)
      [] exc = "NotAuthenticated" -> View(db, 401, "not_authenticated", exc)
      [] exc = "AuthenticationFailed" -> View(db, 401, "authentication_failed", exc)
      [] exc = "Http404" -> View(db, 404, "error", exc)
      [] OTHER -> View(db, 500, "error", exc)

\* handle_system_admin_protection: the decorator of apps/users/exceptions.py
handle_system_admin_protection(db, exc) ==
    IF exc = "SystemAdminProtectionError" \/ exc \in RootAdminMessages
    THEN View(db, 403, "SYSTEM_ADMIN_PROTECTION", exc)
    ELSE custom_exception_handler(db, exc)

-----------------------------------------------------------------------------
(* Decorators: apps/users/decorators.py *)

require_super_admin(user) ==
    is_system_root_admin(user) \/ user.role = "super_admin"

require_role(user, allowed_roles) ==
    is_super_admin(user) \/ user.role \in allowed_roles

require_competition_admin_or_above(user) ==
    require_role(user, {"super_admin", "competition_admin"})

require_permissions(user, permissions) ==
    is_super_admin(user) \/ has_any_permission(user.role, permissions)

-----------------------------------------------------------------------------
(* Validators and serializers *)

\* validate_password_strength (apps/common/utils/validators.py)
validate_password_strength(password) ==
    LET f == PasswordFacts[password] IN
    /\ f.len >= 8 /\ f.len <= 128
    /\ f.lower /\ f.upper /\ f.digit /\ f.special

\* The userid texts of the requests of the model: their length and whether
\* they hold only letters, digits, '_' and '-'
UseridFacts ==
    [u \in {"alice", "bob", "ab", "admin"} |->
        CASE u = "alice" -> [len |-> 5, alnum |-> TRUE]
          [] u = "bob"   -> [len |-> 3, alnum |-> TRUE]
          [] u = "ab"    -> [len |-> 2, alnum |-> TRUE]
          [] u = "admin" -> [len |-> 5, alnum |-> TRUE]]

\* UserCreateSerializer.is_valid: field validation, validate_userid,
\* validate_password, validate
UserCreateSerializer_is_valid(db, data) ==
    /\ ~userid_exists(db, data.userid)
    /\ UseridFacts[data.userid].len >= 3
    /\ UseridFacts[data.userid].alnum
    /\ data.role \in ROLE_CHOICES
    /\ PasswordFacts[data.password].len >= 6
    /\ validate_password_strength(data.password)
    /\ data.password = data.password_confirm

\* UserCreateSerializer.create
UserCreateSerializer_create(db, data) ==
    LET created == objects_create(db, NewUser(NoPk, data.userid, "", "", data.role,
                                              FALSE, FALSE, FALSE))
    IN IF created.exc # "none" THEN created
       ELSE set_password(created.db, created.inst, data.password)

\* UserUpdateSerializer.is_valid; role, current_password and new_password are
\* optional (None when the request leaves them out)
UserUpdateSerializer_is_valid(data) ==
    /\ data.role # NoneVal => data.role \in ROLE_CHOICES
    /\ data.new_password # NoneVal =>
          /\ PasswordFacts[data.new_password].len >= 6
          /\ validate_password_strength(data.new_password)
    /\ ~(data.new_password # NoneVal /\ data.current_password = NoneVal)
    /\ ~(data.current_password # NoneVal /\ data.new_password = NoneVal)

\* UserUpdateSerializer.update
UserUpdateSerializer_update(db, instance, data) ==
    LET changed == IF data.current_password # NoneVal /\ data.new_password # NoneVal
                   THEN IF ~check_password(instance, data.current_password)
                        THEN Raise(db, instance, "ValidationError_list")
                        ELSE set_password(db, instance, data.new_password)
                   ELSE Ok(db, instance)
    IN IF changed.exc # "none" THEN changed
       ELSE LET assigned == IF data.role # NoneVal
                            THEN [changed.inst EXCEPT !.role = data.role]
                            ELSE changed.inst
            IN save(changed.db, assigned, AllFields, FALSE)

\* UserRoleUpdateSerializer: is_valid, then ModelSerializer.update and save
UserRoleUpdateSerializer_is_valid(data) ==
    data.role # NoneVal => data.role \in ROLE_CHOICES

UserRoleUpdateSerializer_save(db, instance, data) ==
    save(db, IF data.role # NoneVal THEN [instance EXCEPT !.role = data.role] ELSE instance,
         AllFields, FALSE)

\* UserLoginSerializer.validate: the exception, or "none"
UserLoginSerializer_validate(db, data) ==
    IF ~userid_exists(db, data.userid) THEN "ValidationError"
    ELSE LET user == db.users[UserByUserid(db, data.userid)] IN
         IF ~check_password(user, data.password) THEN "ValidationError"
         ELSE IF ~user.is_active THEN "ValidationError"
         ELSE "none"

\* ChangePasswordSerializer.is_valid: current_password is required and not
\* compared with anything
ChangePasswordSerializer_is_valid(data) ==
    /\ data.current_password # NoneVal
    /\ PasswordFacts[data.new_password].len >= 6
    /\ validate_password_strength(data.new_password)
    /\ data.new_password = data.new_password_confirm

-----------------------------------------------------------------------------
(* Views: apps/users/views/user.py *)

\* UserViewSet.get_queryset
get_queryset(db, user) ==
    IF is_admin(user) THEN DOMAIN db.users
    ELSE IF is_teacher(user)
    THEN {i \in DOMAIN db.users : db.users[i].role \in {"student", "teacher"}}
    ELSE {i \in DOMAIN db.users : i = user.id}

\* Faulty variant of the transaction: what was written before the exception stays
atomic_without_rollback(before, r) == r

\* with transaction.atomic(): what was written is undone when the block raises
atomic(before, r) == IF r.exc # "none" THEN Raise(before, r.inst, r.exc) ELSE r

\* UserViewSet.create with perform_create
UserViewSet_create(db, user, data) ==
    IF ~require_super_admin(user) THEN View(db, 403, "ROLE_NOT_ALLOWED", "none")
    ELSE IF ~UserCreateSerializer_is_valid(db, data)
    THEN custom_exception_handler(db, "ValidationError")
    ELSE LET created == UserCreateSerializer_create(db, data)
             done == atomic(db, IF created.exc # "none" THEN created
                                ELSE Ok(UserActivity_create(created.db, created.inst, "register"),
                                        created.inst))
         IN IF done.exc # "none" THEN custom_exception_handler(done.db, done.exc)
            ELSE View(done.db, 201, NoneVal, "none")

\* RegisterView.post
RegisterView_post(db, user, data) ==
    IF ~require_super_admin(user) THEN View(db, 403, "ROLE_NOT_ALLOWED", "none")
    ELSE IF ~UserCreateSerializer_is_valid(db, data)
    THEN custom_exception_handler(db, "ValidationError")
    ELSE LET created == UserCreateSerializer_create(db, data)
             done == atomic(db, IF created.exc # "none" THEN created
                                ELSE Ok(UserActivity_create(
                                            Token_get_or_create(created.db, created.inst),
                                            created.inst, "register"),
                                        created.inst))
         IN IF done.exc # "none" THEN custom_exception_handler(done.db, done.exc)
            ELSE View(done.db, 201, NoneVal, "none")

\* UserViewSet.perform_update
perform_update(db, instance, data) ==
    LET saved == UserUpdateSerializer_update(db, instance, data) IN
    atomic(db, IF saved.exc # "none" THEN saved
               ELSE Ok(UserActivity_create(saved.db, saved.inst, "update_profile"),
                       saved.inst))

\* UserViewSet.update and partial_update
UserViewSet_update(db, user, pk, data) ==
    IF ~require_super_admin(user) THEN View(db, 403, "ROLE_NOT_ALLOWED", "none")
    ELSE IF pk \notin get_queryset(db, user) THEN custom_exception_handler(db, "Http404")
    ELSE IF ~UserUpdateSerializer_is_valid(data)
    THEN custom_exception_handler(db, "ValidationError")
    ELSE LET done == perform_update(db, db.users[pk], data) IN
         IF done.exc # "none" THEN custom_exception_handler(done.db, done.exc)
         ELSE View(done.db, 200, NoneVal, "none")

\* UserViewSet.destroy
UserViewSet_destroy(db, user, pk) ==
    IF ~require_super_admin(user) THEN View(db, 403, "ROLE_NOT_ALLOWED", "none")
    ELSE IF pk \notin get_queryset(db, user) THEN custom_exception_handler(db, "Http404")
    ELSE LET done == delete(db, db.users[pk]) IN
         IF done.exc # "none" THEN custom_exception_handler(done.db, done.exc)
         ELSE View(done.db, 204, NoneVal, "none")

\* UserViewSet.deactivate
UserViewSet_deactivate(db, user) ==
    LET done == deactivate(db, user) IN
    IF done.exc # "none" THEN custom_exception_handler(done.db, done.exc)
    ELSE View(UserActivity_create(done.db, done.inst, "deactivate"), 204, NoneVal, "none")

\* UserViewSet.activate
UserViewSet_activate(db, user, pk) ==
    IF ~require_competition_admin_or_above(user)
    THEN View(db, 403, "ROLE_NOT_ALLOWED", "none")
    ELSE IF pk \notin get_queryset(db, user) THEN custom_exception_handler(db, "Http404")
    ELSE LET done == activate(db, db.users[pk]) IN
         IF done.exc # "none" THEN custom_exception_handler(done.db, done.exc)
         ELSE View(UserActivity_create(done.db, done.inst, "activate"), 200, NoneVal, "none")

\* UserViewSet.set_role
UserViewSet_set_role(db, user, pk, data) ==
    IF ~require_super_admin(user) THEN View(db, 403, "ROLE_NOT_ALLOWED", "none")
    ELSE IF pk \notin get_queryset(db, user) THEN custom_exception_handler(db, "Http404")
    ELSE IF ~UserRoleUpdateSerializer_is_valid(data)
    THEN custom_exception_handler(db, "ValidationError")
    ELSE LET done == UserRoleUpdateSerializer_save(db, db.users[pk], data) IN
         IF done.exc # "none" THEN custom_exception_handler(done.db, done.exc)
         ELSE View(UserActivity_create(done.db, done.inst, "update_profile"),
                   200, NoneVal, "none")

\* LoginView.post
LoginView_post(db, data) ==
    LET exc == UserLoginSerializer_validate(db, data) IN
    IF exc # "none" THEN custom_exception_handler(db, exc)
    ELSE LET user == db.users[UserByUserid(db, data.userid)]
             logged == update_last_login_time(Token_get_or_create(db, user), user)
         IN IF logged.exc # "none" THEN custom_exception_handler(logged.db, logged.exc)
            ELSE View(UserActivity_create(logged.db, logged.inst, "login"),
                      200, NoneVal, "none")

\* Faulty variant of LogoutView.post: no activity record is created
LogoutView_post_unlogged(db, user) ==
    View(Token_delete(db, user), 204, NoneVal, "none")

\* LogoutView.post
LogoutView_post(db, user) ==
    View(UserActivity_create(Token_delete(db, user), user, "logout"), 204, NoneVal, "none")

\* Faulty variant of ChangePasswordView.post: the root admin is not singled out
ChangePasswordView_post_unchecked(db, user, data) ==
    IF ~ChangePasswordSerializer_is_valid(data)
    THEN handle_system_admin_protection(db, "ValidationError")
    ELSE LET hashed == set_password(db, user, data.new_password) IN
         IF hashed.exc # "none" THEN handle_system_admin_protection(hashed.db, hashed.exc)
         ELSE LET saved == save(hashed.db, hashed.inst, AllFields, FALSE) IN
              IF saved.exc # "none" THEN handle_system_admin_protection(saved.db, saved.exc)
              ELSE View(UserActivity_create(saved.db, saved.inst, "change_password"),
                        204, NoneVal, "none")

\* ChangePasswordView.post, inside handle_system_admin_protection
ChangePasswordView_post(db, user, data) ==
    IF is_system_root_admin(user)
    THEN handle_system_admin_protection(db, "SystemAdminProtectionError")
    ELSE IF ~ChangePasswordSerializer_is_valid(data)
    THEN handle_system_admin_protection(db, "ValidationError")
    ELSE LET hashed == set_password(db, user, data.new_password) IN
         IF hashed.exc # "none" THEN handle_system_admin_protection(hashed.db, hashed.exc)
         ELSE LET saved == save(hashed.db, hashed.inst, AllFields, FALSE) IN
              IF saved.exc # "none" THEN handle_system_admin_protection(saved.db, saved.exc)
              ELSE View(UserActivity_create(saved.db, saved.inst, "change_password"),
                        204, NoneVal, "none")

-----------------------------------------------------------------------------
(* Actions *)

Commit(db) ==
    /\ users' = db.users
    /\ tokens' = db.tokens
    /\ activities' = db.activities
    /\ next_id' = db.next_id

\* What the last operation was and answered: the operation, the id of the user
\* it was aimed at (NoPk for none), the role an update or set_role asked for,
\* the HTTP status and code (0 and None for an operation that is no request),
\* the exception it raised, whether it committed a write
Resp(op, subject, role, status, code, exc, db) ==
    [op |-> op, subject |-> subject, role |-> role, status |-> status, code |-> code,
     exc |-> exc, wrote |-> db.writes > 0]

\* request.user of a request that carries no valid token
AnonymousUser ==
    [NewUser(NoPk, "", "", "", NoneVal, FALSE, FALSE, FALSE) EXCEPT !.is_active = FALSE]

\* The requests that are followed step by step
Requests == {"a", "b"}

\* A request in flight: where its handler stands, the header and body it came
\* with, request.user as authentication loaded it, the instance the handler
\* works on, the status it was answered with (0: not yet)
Idle ==
    [pc |-> "idle", cred |-> NoCredential,
     data |-> [current_password |-> NoneVal, new_password |-> NoneVal,
               new_password_confirm |-> NoneVal],
     received |-> AnonymousUser, user |-> AnonymousUser, status |-> 0]

Init ==
    /\ users = << >>
    /\ tokens = {}
    /\ activities = << >>
    /\ next_id = 1
    /\ env_ADMIN_PASSWORD \in EnvPasswords
    /\ started = "none"
    /\ response = Resp("none", NoPk, NoneVal, 0, NoneVal, "none", DB)
    /\ inflight = [r \in Requests |-> Idle]
    /\ token_keys = NoKeys
    /\ jwt_secret = NoneVal

\* The service as deployed with either settings module: the one of
\* UserService/settings.py, or one that also defines the signing secret, the
\* algorithm and the token lifetimes
InitConfigured ==
    /\ users = << >>
    /\ tokens = {}
    /\ activities = << >>
    /\ next_id = 1
    /\ env_ADMIN_PASSWORD \in EnvPasswords
    /\ started = "none"
    /\ response = Resp("none", NoPk, NoneVal, 0, NoneVal, "none", DB)
    /\ inflight = [r \in Requests |-> Idle]
    /\ token_keys = NoKeys
    /\ jwt_secret \in {NoneVal, "signing-secret"}

\* A process of the service starts (AppConfig.ready, or post_migrate after migrate)
StartupCheck ==
    LET r == ensure_system_admin_on_startup(DB, env_ADMIN_PASSWORD) IN
    /\ Commit(r.db)
    /\ started' = "server"
    /\ response' = Resp("startup", NoPk, NoneVal, 0, NoneVal, r.exc, r.db)
    /\ UNCHANGED <<env_ADMIN_PASSWORD, inflight, token_keys, jwt_secret>>

\* The operator changes the configured password source
Reconfigure ==
    /\ \E p \in EnvPasswords : env_ADMIN_PASSWORD' = p
    /\ env_ADMIN_PASSWORD' # env_ADMIN_PASSWORD
    /\ response' = Resp("reconfigure", NoPk, NoneVal, 0, NoneVal, "none", DB)
    /\ UNCHANGED <<users, tokens, activities, next_id, started, inflight, token_keys, jwt_secret>>

\* A management command has run in a process of its own
CommandRan ==
    /\ started' = IF started = "none" THEN "command" ELSE started
    /\ UNCHANGED <<env_ADMIN_PASSWORD, inflight, token_keys, jwt_secret>>

\* manage.py init_superuser [--force]: django.setup() runs the startup check
\* before the command's handle
InitSuperuser ==
    \E force \in BOOLEAN :
        LET booted == ensure_system_admin_on_startup(DB, env_ADMIN_PASSWORD)
            r == init_superuser(booted.db, force, env_ADMIN_PASSWORD)
        IN /\ Commit(r.db)
           /\ response' = Resp(IF force THEN "init_superuser_force" ELSE "init_superuser",
                               NoPk, NoneVal, 0, NoneVal, r.exc, r.db)
           /\ CommandRan

AdminCommandPasswords == {"Rotated#789", "short"}

\* manage.py update_admin_password <password>
UpdateAdminPassword ==
    \E new_password \in AdminCommandPasswords :
        LET booted == ensure_system_admin_on_startup(DB, env_ADMIN_PASSWORD)
            r == update_admin_password(booted.db, new_password)
        IN /\ Commit(r.db)
           /\ response' = Resp("update_admin_password", NoPk, NoneVal, 0, NoneVal, r.exc, r.db)
           /\ CommandRan

\* manage.py create_test_users
CreateTestUsers ==
    LET booted == ensure_system_admin_on_startup(DB, env_ADMIN_PASSWORD)
        db == create_test_users(booted.db)
    IN /\ db.next_id <= MaxId + 1
       /\ Commit(db)
       /\ response' = Resp("create_test_users", NoPk, NoneVal, 0, NoneVal, "none", db)
       /\ CommandRan

\* The credentials a client may send: none, or the key of a token some user
\* holds or once held
TokenCredentials == {TokenOf(i) : i \in 1..MaxId}

Credentials == {NoCredential} \cup TokenCredentials

\* The id the credential authenticates, NoPk when it authenticates nobody
Caller(cred) == TokenAuthentication(DB, cred).user

\* request.user as the view sees it
RequestUser(cred) ==
    IF Caller(cred) = NoPk THEN AnonymousUser ELSE DB.users[Caller(cred)]

\* One request through RBACMiddleware.process_request, then APIView.initial
\* (TokenAuthentication, the view's permission class), then the handler, whose
\* outcome is handled
Dispatch(cred, path, method, is_authenticated, handled) ==
    LET denial == process_request(DB, cred, path, method) IN
    IF denial # "allow" THEN View(DB, DenialStatus(denial), denial, "none")
    ELSE LET auth == TokenAuthentication(DB, cred) IN
         IF auth.exc # "none" THEN custom_exception_handler(DB, auth.exc)
         ELSE IF auth.user = NoPk /\ is_authenticated
         THEN custom_exception_handler(DB, "NotAuthenticated")
         ELSE handled

\* The response is sent and the request's writes are in the database
Respond(op, subject, role, v) ==
    /\ Len(v.db.activities) <= MaxActs
    /\ v.db.next_id <= MaxId + 1
    /\ Commit(v.db)
    /\ response' = Resp(op, subject, role, v.status, v.code, v.exc, v.db)
    /\ UNCHANGED <<env_ADMIN_PASSWORD, started, inflight, token_keys, jwt_secret>>

UsersPath == <<"api", "v1", "users">>

AuthPath(name) == <<"api", "v1", "auth", name>>

LoginUserids == {"admin", "alice", "super_admin01"}

LoginPasswords == {"admin123", "Env#Passw0rd", "TestPass123!", "NewPass456!"}

\* POST /api/v1/auth/login/ with body {userid, password}
LoginRequest(cred, userid, password) ==
    /\ started = "server"
    /\ Respond("login",
               IF userid_exists(DB, userid) THEN UserByUserid(DB, userid) ELSE NoPk,
               NoneVal,
               Dispatch(cred, AuthPath("login"), "POST", FALSE,
                        LoginView_post(DB, [userid |-> userid, password |-> password])))

Login ==
    \E cred \in {NoCredential}, userid \in LoginUserids, password \in LoginPasswords :
        LoginRequest(cred, userid, password)

\* POST /api/v1/auth/logout/
Logout ==
    \E cred \in Credentials :
        /\ started = "server"
        /\ Respond("logout", Caller(cred), NoneVal,
                   Dispatch(cred, AuthPath("logout"), "POST", TRUE,
                            LogoutView_post(DB, RequestUser(cred))))

\* The bodies of the creation requests: a valid one, and one for each way
\* validation fails
CreateData ==
    LET valid == [userid |-> "alice", password |-> "TestPass123!",
                  password_confirm |-> "TestPass123!", role |-> "student"]
    IN {valid,
        [valid EXCEPT !.userid = "ab"],
        [valid EXCEPT !.userid = "admin"],
        [valid EXCEPT !.password = "admin123", !.password_confirm = "admin123"],
        [valid EXCEPT !.role = "guest"]}

\* POST /api/v1/auth/register/
Register ==
    \E cred \in TokenCredentials, data \in CreateData :
        /\ started = "server"
        /\ Respond("register", NoPk, NoneVal,
                   Dispatch(cred, AuthPath("register"), "POST", TRUE,
                            RegisterView_post(DB, RequestUser(cred), data)))

\* POST /api/v1/users/
UserCreate ==
    \E cred \in TokenCredentials, data \in CreateData :
        /\ started = "server"
        /\ Respond("create", NoPk, NoneVal,
                   Dispatch(cred, UsersPath, "POST", TRUE,
                            UserViewSet_create(DB, RequestUser(cred), data)))

UpdateRoles == {"super_admin", "competition_admin", "guest"}

\* The bodies of the update requests: a role, a role that is no choice, a
\* password change, a password change with a role
UpdateData ==
    LET none == [role |-> NoneVal, current_password |-> NoneVal, new_password |-> NoneVal]
    IN {[none EXCEPT !.role = r] : r \in {"student", "guest"}}
       \cup {[none EXCEPT !.current_password = c, !.new_password = "NewPass456!"] :
                c \in {"admin123", "TestPass123!"}}
       \cup {[role |-> "student", current_password |-> "admin123",
              new_password |-> "NewPass456!"]}

\* PUT and PATCH /api/v1/users/{pk}/
UpdateRequest(cred, pk, method, data) ==
    /\ started = "server"
    /\ Respond(IF method = "PUT" THEN "update" ELSE "partial_update", pk, data.role,
               Dispatch(cred, UsersPath \o <<ToString(pk)>>, method, TRUE,
                        UserViewSet_update(DB, RequestUser(cred), pk, data)))

UserUpdate ==
    \E cred \in TokenCredentials, pk \in 1..MaxId, method \in {"PUT", "PATCH"}, data \in UpdateData :
        UpdateRequest(cred, pk, method, data)

\* DELETE /api/v1/users/{pk}/
UserDestroy ==
    \E cred \in TokenCredentials, pk \in 1..MaxId :
        /\ started = "server"
        /\ Respond("destroy", pk, NoneVal,
                   Dispatch(cred, UsersPath \o <<ToString(pk)>>, "DELETE", TRUE,
                            UserViewSet_destroy(DB, RequestUser(cred), pk)))

\* DELETE /api/v1/users/deactivate/
UserDeactivate ==
    \E cred \in Credentials :
        /\ started = "server"
        /\ Respond("deactivate", Caller(cred), NoneVal,
                   Dispatch(cred, UsersPath \o <<"deactivate">>, "DELETE", TRUE,
                            UserViewSet_deactivate(DB, RequestUser(cred))))

\* POST /api/v1/users/{pk}/activate/
UserActivate ==
    \E cred \in TokenCredentials, pk \in 1..MaxId :
        /\ started = "server"
        /\ Respond("activate", pk, NoneVal,
                   Dispatch(cred, UsersPath \o <<ToString(pk), "activate">>, "POST", TRUE,
                            UserViewSet_activate(DB, RequestUser(cred), pk)))

\* PATCH /api/v1/users/{pk}/set_role/
SetRoleRequest(cred, pk, role) ==
    /\ started = "server"
    /\ Respond("set_role", pk, role,
               Dispatch(cred, UsersPath \o <<ToString(pk), "set_role">>, "PATCH", TRUE,
                        UserViewSet_set_role(DB, RequestUser(cred), pk, [role |-> role])))

UserSetRole ==
    \E cred \in TokenCredentials, pk \in 1..MaxId, role \in UpdateRoles :
        SetRoleRequest(cred, pk, role)

\* The bodies of the change-password requests: a valid one, one whose
\* confirmation differs, one with another current_password, one without
ChangePasswordData ==
    LET valid == [current_password |-> "TestPass123!", new_password |-> "NewPass456!",
                  new_password_confirm |-> "NewPass456!"]
    IN {valid,
        [valid EXCEPT !.new_password_confirm = "TestPass123!"],
        [valid EXCEPT !.current_password = "admin123"],
        [valid EXCEPT !.current_password = NoneVal]}

\* POST /api/v1/auth/change-password/ with body data
ChangePasswordRequest(cred, data) ==
    /\ started = "server"
    /\ Respond("change_password", Caller(cred), NoneVal,
               Dispatch(cred, AuthPath("change-password"), "POST", TRUE,
                        ChangePasswordView_post(DB, RequestUser(cred), data)))

ChangePassword ==
    \E cred \in Credentials, data \in ChangePasswordData :
        ChangePasswordRequest(cred, data)

Next ==
    \/ StartupCheck
    \/ Reconfigure
    \/ InitSuperuser
    \/ UpdateAdminPassword
    \/ CreateTestUsers
    \/ Login
    \/ Logout
    \/ Register
    \/ UserCreate
    \/ UserUpdate
    \/ UserDestroy
    \/ UserDeactivate
    \/ UserActivate
    \/ UserSetRole
    \/ ChangePassword

Spec == Init /\ [][Next]_vars

-----------------------------------------------------------------------------
(* The model layer used directly: code that loads the row with id 1, assigns
   fields of the instance and calls save, with no view in between *)

GuardUserids == {"admin", "root"}

GuardRoles == {"super_admin", "student", "guest"}

\* user = User.objects.get(pk=1); user.userid, user.is_system_admin,
\* user.role = ...; user.save()
ModelSaveCall(userid, sysadmin, role) ==
    /\ 1 \in DOMAIN users
    /\ LET instance == [users[1] EXCEPT !.userid = userid,
                                        !.is_system_admin = sysadmin,
                                        !.role = role]
           r == save(DB, instance, AllFields, FALSE)
       IN /\ Commit(r.db)
          /\ response' = Resp("model_save", 1, NoneVal, 0, NoneVal, r.exc, r.db)
    /\ UNCHANGED <<env_ADMIN_PASSWORD, started, inflight, token_keys, jwt_secret>>

ModelLayerSave ==
    \E userid \in GuardUserids, sysadmin \in BOOLEAN, role \in GuardRoles :
        ModelSaveCall(userid, sysadmin, role)

NextGuard ==
    \/ StartupCheck
    \/ Reconfigure
    \/ ModelLayerSave

SpecGuard == Init /\ [][NextGuard]_vars

-----------------------------------------------------------------------------
(* The RBAC middleware on its own: requests of every shape, routed by the
   service or not, against the stores the commands and the API build *)

\* PATCH /api/v1/users/2/set_role/ with each role of the model
AssignRole ==
    \E cred \in TokenCredentials, role \in ROLE_CHOICES :
        SetRoleRequest(cred, 2, role)

\* Bearer headers: a signed token that has not expired, one that has, one
\* without an exp claim, one whose signature is not the server's
BearerCredentials ==
    {BearerOf(TRUE, TRUE, Now + 1, 1), BearerOf(TRUE, TRUE, Now - 1, 1),
     BearerOf(TRUE, FALSE, 0, 1), BearerOf(FALSE, TRUE, Now + 1, 1)}

\* The Authorization headers of the requests: none, an unknown scheme, the key
\* of each user, a key no token has, the Bearer headers
RBACCredentials ==
    {NoCredential, BasicCredential, TokenOf(MaxId + 1)}
        \cup TokenCredentials \cup BearerCredentials

\* The paths of the requests: the routes of the user API, public paths, the
\* health check, and paths no route serves
RBACPaths ==
    {UsersPath, UsersPath \o <<"1">>, UsersPath \o <<"2">>,
     UsersPath \o <<"1", "deactivate">>,
     AuthPath("login"), <<"static", "app.js">>, <<"health">>,
     <<"api", "2", "items">>, <<"v1", "2", "api", "users">>}

\* The methods of the requests: a safe one and two that are not
RBACMethods == {"GET", "POST", "DELETE"}

\* RBACMiddleware.process_request on one request: its decision is the response
MiddlewareRequest ==
    \E cred \in RBACCredentials, path \in RBACPaths, method \in RBACMethods :
        LET denial == process_request(DB, cred, path, method) IN
        /\ started = "server"
        /\ response' = [op |-> "middleware",
                        subject |-> process_request_user(DB, cred, path),
                        role |-> NoneVal,
                        status |-> IF denial = "allow" THEN 0 ELSE DenialStatus(denial),
                        code |-> denial, exc |-> "none", wrote |-> FALSE,
                        cred |-> cred, path |-> path, method |-> method]
        /\ UNCHANGED <<users, tokens, activities, next_id, env_ADMIN_PASSWORD, started,
                       inflight, token_keys, jwt_secret>>

NextRBAC ==
    \/ StartupCheck
    \/ CreateTestUsers
    \/ AssignRole
    \/ UserDeactivate
    \/ MiddlewareRequest

SpecRBAC == Init /\ [][NextRBAC]_vars

-----------------------------------------------------------------------------
(* ChangePasswordView.post step by step: between two statements that touch
   the database, another request may run *)

\* The request arrives: the middleware, then DRF authentication, which loads
\* request.user
ChangePasswordReceived(r) ==
    \E cred \in Credentials, data \in ChangePasswordData :
        LET entered == Dispatch(cred, AuthPath("change-password"), "POST", TRUE,
                                View(DB, 0, NoneVal, "none"))
        IN /\ started = "server"
           /\ inflight[r].pc = "idle"
           /\ inflight' = [inflight EXCEPT ![r] =
                  [pc |-> IF entered.status = 0 THEN "authenticated" ELSE "done",
                   cred |-> cred, data |-> data,
                   received |-> RequestUser(cred), user |-> RequestUser(cred),
                   status |-> entered.status]]
           /\ UNCHANGED <<users, tokens, activities, next_id, env_ADMIN_PASSWORD,
                          started, response, token_keys, jwt_secret>>

\* The root admin check, serializer.is_valid, then user.set_password, which
\* writes the new hash
ChangePasswordHashed(r) ==
    LET q == inflight[r]
        refused == IF is_system_root_admin(q.user)
                   THEN handle_system_admin_protection(DB, "SystemAdminProtectionError")
                   ELSE handle_system_admin_protection(DB, "ValidationError")
        hashed == set_password(DB, q.user, q.data.new_password)
    IN /\ q.pc = "authenticated"
       /\ IF is_system_root_admin(q.user) \/ ~ChangePasswordSerializer_is_valid(q.data)
          THEN /\ inflight' = [inflight EXCEPT ![r].pc = "done",
                                               ![r].status = refused.status]
               /\ UNCHANGED <<users, tokens, activities, next_id>>
          ELSE IF hashed.exc # "none"
          THEN /\ inflight' = [inflight EXCEPT
                     ![r].pc = "done",
                     ![r].status = handle_system_admin_protection(hashed.db, hashed.exc).status]
               /\ Commit(hashed.db)
          ELSE /\ inflight' = [inflight EXCEPT ![r].pc = "hashed", ![r].user = hashed.inst]
               /\ Commit(hashed.db)
       /\ UNCHANGED <<env_ADMIN_PASSWORD, started, response, token_keys, jwt_secret>>

\* user.save()
ChangePasswordSaved(r) ==
    LET q == inflight[r]
        saved == save(DB, q.user, AllFields, FALSE)
    IN /\ q.pc = "hashed"
       /\ IF saved.exc # "none"
          THEN inflight' = [inflight EXCEPT
                   ![r].pc = "done",
                   ![r].status = handle_system_admin_protection(saved.db, saved.exc).status]
          ELSE inflight' = [inflight EXCEPT ![r].pc = "saved", ![r].user = saved.inst]
       /\ Commit(saved.db)
       /\ UNCHANGED <<env_ADMIN_PASSWORD, started, response, token_keys, jwt_secret>>

\* UserActivity.objects.create, then the 204 response
ChangePasswordLogged(r) ==
    LET q == inflight[r] IN
    /\ q.pc = "saved"
    /\ Commit(UserActivity_create(DB, q.user, "change_password"))
    /\ inflight' = [inflight EXCEPT ![r].pc = "done", ![r].status = 204]
    /\ UNCHANGED <<env_ADMIN_PASSWORD, started, response, token_keys, jwt_secret>>

ChangePasswordStep ==
    \E r \in Requests :
        \/ ChangePasswordReceived(r)
        \/ ChangePasswordHashed(r)
        \/ ChangePasswordSaved(r)
        \/ ChangePasswordLogged(r)

NextConcurrent ==
    \/ StartupCheck
    \/ CreateTestUsers
    \/ ChangePasswordStep

SpecConcurrent == Init /\ [][NextConcurrent]_vars

-----------------------------------------------------------------------------
(* Sessions: login, logout and requests that present a key, with the keys
   of the token table followed one by one *)

\* The keys a client may present: every key that was or may be generated
SessionKeys == 1..MaxKeys

\* Token.objects.get(key=key): the id of the row's user, an id without row
\* when no row has the key
KeyOwner(key) ==
    IF \E u \in tokens \cap DOMAIN token_keys.of : token_keys.of[u] = key
    THEN CHOOSE u \in tokens \cap DOMAIN token_keys.of : token_keys.of[u] = key
    ELSE MaxId + 1

\* The header 'Authorization: Token <key>'
KeyCredential(key) == TokenOf(KeyOwner(key))

\* The id TokenAuthentication resolves the key to, NoPk for nobody
SessionResolves(key) == TokenAuthentication(DB, KeyCredential(key)).user

\* The response is sent, the request's writes are in the database and the
\* new rows of the token table have their keys
SessionRespond(op, subject, key, v) ==
    LET keys == Token_keys(token_keys, tokens, v.db.tokens) IN
    /\ Len(v.db.activities) <= 2 * MaxKeys
    /\ keys.issued <= MaxKeys
    /\ Commit(v.db)
    /\ token_keys' = keys
    /\ response' = [op |-> op, subject |-> subject, role |-> NoneVal,
                    status |-> v.status, code |-> v.code, exc |-> v.exc,
                    wrote |-> v.db.writes > 0, key |-> key]
    /\ UNCHANGED <<env_ADMIN_PASSWORD, started, inflight, jwt_secret>>

\* POST /api/v1/auth/login/
SessionLogin ==
    \E userid \in LoginUserids, password \in LoginPasswords :
        /\ started = "server"
        /\ SessionRespond("login",
                          IF userid_exists(DB, userid) THEN UserByUserid(DB, userid)
                          ELSE NoPk,
                          0,
                          Dispatch(NoCredential, AuthPath("login"), "POST", FALSE,
                                   LoginView_post(DB, [userid |-> userid,
                                                       password |-> password])))

\* POST /api/v1/auth/logout/ with 'Authorization: Token <key>'
SessionLogout ==
    \E key \in SessionKeys :
        LET cred == KeyCredential(key) IN
        /\ started = "server"
        /\ SessionRespond("logout", Caller(cred), key,
                          Dispatch(cred, AuthPath("logout"), "POST", TRUE,
                                   LogoutView_post(DB, RequestUser(cred))))

\* GET /api/v1/users/me/ with 'Authorization: Token <key>', as far as the
\* middleware's authenticate_user
SessionRequest ==
    \E key \in SessionKeys :
        LET cred == KeyCredential(key)
            path == UsersPath \o <<"me">>
            denial == process_request(DB, cred, path, "GET")
        IN /\ started = "server"
           /\ response' = [op |-> "request",
                           subject |-> process_request_user(DB, cred, path),
                           role |-> NoneVal,
                           status |-> IF denial = "allow" THEN 0 ELSE DenialStatus(denial),
                           code |-> denial, exc |-> "none", wrote |-> FALSE, key |-> key]
           /\ UNCHANGED <<users, tokens, activities, next_id, env_ADMIN_PASSWORD, started,
                          inflight, token_keys, jwt_secret>>

NextSession ==
    \/ StartupCheck
    \/ Reconfigure
    \/ SessionLogin
    \/ SessionLogout
    \/ SessionRequest

SpecSession == Init /\ [][NextSession]_vars

-----------------------------------------------------------------------------
(* Credentials: what the middleware's authenticate_user and the refresh_token
   methods make of the tokens of a user, active or not, in a deployment with
   or without a signing secret *)

TokenTypes == {"access", "refresh"}

\* Signed tokens naming each user: of both types, signed by the server or
\* not, expired or not
SignedTokens ==
    {TypedBearer(type, signed, exp, user_id) :
        type \in TokenTypes, signed \in BOOLEAN, exp \in {Now - 1, Now + 1},
        user_id \in 1..MaxId}

\* GET /api/v1/users/ or /api/v1/users/1/ with the opaque key or a signed
\* token of a user
CredentialRequest ==
    \E cred \in TokenCredentials \cup SignedTokens,
       path \in {UsersPath, UsersPath \o <<"1">>} :
        LET denial == process_request(DB, cred, path, "GET")
        IN /\ started = "server"
           /\ response' = [op |-> "middleware",
                           subject |-> process_request_user(DB, cred, path),
                           role |-> NoneVal,
                           status |-> IF denial = "allow" THEN 0 ELSE DenialStatus(denial),
                           code |-> denial, exc |-> "none", wrote |-> FALSE,
                           cred |-> cred, path |-> path, method |-> "GET"]
           /\ UNCHANGED <<users, tokens, activities, next_id, env_ADMIN_PASSWORD, started,
                          inflight, token_keys, jwt_secret>>

\* JWTAuthentication().refresh_token(token) or JWTUtils.refresh_token(token)
RefreshCall ==
    \E token \in SignedTokens, by \in {"JWTAuthentication", "JWTUtils"} :
        LET r == IF by = "JWTAuthentication"
                 THEN JWTAuthentication_refresh_token(DB, token)
                 ELSE JWTUtils_refresh_token(DB, token)
        IN /\ started = "server"
           /\ response' = [op |-> "refresh_token", subject |-> r.user, role |-> NoneVal,
                           status |-> 0, code |-> by, exc |-> r.exc, wrote |-> FALSE,
                           cred |-> token]
           /\ UNCHANGED <<users, tokens, activities, next_id, env_ADMIN_PASSWORD, started,
                          inflight, token_keys, jwt_secret>>

NextCredentials ==
    \/ StartupCheck
    \/ CreateTestUsers
    \/ UserDeactivate
    \/ UserActivate
    \/ Login
    \/ CredentialRequest
    \/ RefreshCall

SpecCredentials == InitConfigured /\ [][NextCredentials]_vars

-----------------------------------------------------------------------------
(* The two layers of authorization on the routed endpoints: the middleware's
   decision next to the requirement the view declares with its decorator *)

\* The routes of apps/users/urls with the decorator of each view; requires is
\* the decorator's argument
Endpoints ==
    {[path |-> UsersPath, method |-> "GET", requires |-> "super_admin"],
     [path |-> UsersPath, method |-> "POST", requires |-> "super_admin"],
     [path |-> UsersPath \o <<"2">>, method |-> "GET", requires |-> "user:read"],
     [path |-> UsersPath \o <<"2">>, method |-> "PUT", requires |-> "super_admin"],
     [path |-> UsersPath \o <<"2">>, method |-> "PATCH", requires |-> "super_admin"],
     [path |-> UsersPath \o <<"2">>, method |-> "DELETE", requires |-> "super_admin"],
     [path |-> UsersPath \o <<"2", "activate">>, method |-> "POST",
      requires |-> "competition_admin_or_above"],
     [path |-> UsersPath \o <<"2", "set_role">>, method |-> "PATCH",
      requires |-> "super_admin"],
     [path |-> <<"api", "v1", "activities">>, method |-> "GET",
      requires |-> "activity:list"],
     [path |-> <<"api", "v1", "activities", "1">>, method |-> "GET",
      requires |-> "activity:read"],
     [path |-> AuthPath("register"), method |-> "POST", requires |-> "super_admin"]}

\* Whether the decorator of the view lets the user in
ViewRequirement(user, requires) ==
    CASE requires = "super_admin" -> require_super_admin(user)
      [] requires = "competition_admin_or_above" -> require_competition_admin_or_above(user)
      [] OTHER -> require_permissions(user, {requires})

\* user = User.objects.get(pk=pk); user.role = 'guest'; user.save(): a role
\* that is no choice of the field, which save does not validate
ModelRoleSave ==
    \E pk \in DOMAIN users :
        LET r == save(DB, [users[pk] EXCEPT !.role = "guest"], AllFields, FALSE) IN
        /\ Commit(r.db)
        /\ response' = Resp("model_save", pk, "guest", 0, NoneVal, r.exc, r.db)
        /\ UNCHANGED <<env_ADMIN_PASSWORD, started, inflight, token_keys, jwt_secret>>

\* One request to a routed endpoint: what the middleware decides, and whether
\* the view's decorator is satisfied by the user the token authenticates
RoutedRequest ==
    \E cred \in TokenCredentials, endpoint \in Endpoints :
        /\ started = "server"
        /\ response' = [op |-> "routed",
                        subject |-> process_request_user(DB, cred, endpoint.path),
                        role |-> RequestUser(cred).role,
                        status |-> 0,
                        code |-> process_request(DB, cred, endpoint.path, endpoint.method),
                        exc |-> "none", wrote |-> FALSE,
                        path |-> endpoint.path, method |-> endpoint.method,
                        requires |-> endpoint.requires,
                        declared |-> /\ Caller(cred) # NoPk
                                     /\ ViewRequirement(RequestUser(cred), endpoint.requires)]
        /\ UNCHANGED <<users, tokens, activities, next_id, env_ADMIN_PASSWORD, started,
                       inflight, token_keys, jwt_secret>>

NextLayers ==
    \/ StartupCheck
    \/ CreateTestUsers
    \/ AssignRole
    \/ ModelLayerSave
    \/ ModelRoleSave
    \/ RoutedRequest

SpecLayers == Init /\ [][NextLayers]_vars

-----------------------------------------------------------------------------
(* The permission tables on their own: the functions of
   permissions/definitions.py and get_required_permissions, each applied to
   the inputs of a call *)

\* The role strings of the calls: the four roles, and strings that are none
QueriedRoles == ROLE_CHOICES \cup {"guest", "SUPER_ADMIN", ""}

\* The permission strings of the calls: the catalog, and one outside it
QueriedPermissions == Permission \cup {"report:export"}

\* The lists of has_any_permission: empty, one permission, several, all
PermissionLists ==
    {{}, {"user:read", "user:update"}, {"user:create", "system:config"}, Permission}
        \cup {{perm} : perm \in QueriedPermissions}

\* request.path of the calls of get_required_permissions
QueriedPaths ==
    {UsersPath, UsersPath \o <<"1">>, UsersPath \o <<"2">>,
     UsersPath \o <<"2", "activate">>, UsersPath \o <<"2", "set_role">>,
     <<"api", "v1", "activities">>, <<"api", "v1", "activities", "1">>,
     AuthPath("register"), <<"api", "v1", "teams">>}

HttpMethods == {"GET", "POST", "PUT", "PATCH", "DELETE"}

\* has_permission(role, permission), next to get_role_permissions(role)
CheckPermission ==
    \E role \in QueriedRoles, permission \in QueriedPermissions :
        /\ response' = [op |-> "has_permission", role |-> role,
                        permission |-> permission,
                        result |-> has_permission(role, permission),
                        granted |-> get_role_permissions(role)]
        /\ UNCHANGED <<users, tokens, activities, next_id, env_ADMIN_PASSWORD, started,
                       inflight, token_keys, jwt_secret>>

\* has_any_permission(role, permissions)
CheckAnyPermission ==
    \E role \in QueriedRoles, permissions \in PermissionLists :
        /\ response' = [op |-> "has_any_permission", role |-> role,
                        permissions |-> permissions,
                        result |-> has_any_permission(role, permissions)]
        /\ UNCHANGED <<users, tokens, activities, next_id, env_ADMIN_PASSWORD, started,
                       inflight, token_keys, jwt_secret>>

\* RBACMiddleware.get_required_permissions(path, method)
RequiredPermissions ==
    \E path \in QueriedPaths, method \in HttpMethods :
        /\ response' = [op |-> "get_required_permissions", path |-> path,
                        method |-> method,
                        required |-> get_required_permissions(path, method)]
        /\ UNCHANGED <<users, tokens, activities, next_id, env_ADMIN_PASSWORD, started,
                       inflight, token_keys, jwt_secret>>

NextPermissions ==
    \/ CheckPermission
    \/ CheckAnyPermission
    \/ RequiredPermissions

SpecPermissions == Init /\ [][NextPermissions]_vars

-----------------------------------------------------------------------------
(* Registration through the API: POST /api/v1/auth/register/ and
   POST /api/v1/users/ with several userids, by the root admin whose token
   init_superuser created, and the deletion of users *)

\* The bodies of the registration requests: two userids of valid format, one
\* that is too short, a valid and a weak password
RegisterData ==
    {[userid |-> u, password |-> p, password_confirm |-> "TestPass123!", role |-> r] :
        u \in {"alice", "bob", "ab"}, p \in {"TestPass123!", "admin123"},
        r \in {"student", "teacher"}}

RegisterRespond(op, cred, data, v) ==
    /\ Len(v.db.activities) <= MaxActs
    /\ v.db.next_id <= MaxId + 1
    /\ Commit(v.db)
    /\ response' = [op |-> op, subject |-> NoPk, role |-> data.role,
                    status |-> v.status, code |-> v.code, exc |-> v.exc,
                    wrote |-> v.db.writes > 0, cred |-> cred, data |-> data]
    /\ UNCHANGED <<env_ADMIN_PASSWORD, started, inflight, token_keys, jwt_secret>>

\* POST /api/v1/auth/register/
RegisterRequest ==
    \E cred \in TokenCredentials, data \in RegisterData :
        /\ started = "server"
        /\ RegisterRespond("register", cred, data,
                           Dispatch(cred, AuthPath("register"), "POST", TRUE,
                                    RegisterView_post(DB, RequestUser(cred), data)))

\* POST /api/v1/users/
CreateRequest ==
    \E cred \in TokenCredentials, data \in RegisterData :
        /\ started = "server"
        /\ RegisterRespond("create", cred, data,
                           Dispatch(cred, UsersPath, "POST", TRUE,
                                    UserViewSet_create(DB, RequestUser(cred), data)))

NextRegister ==
    \/ StartupCheck
    \/ InitSuperuser
    \/ RegisterRequest
    \/ CreateRequest
    \/ UserDestroy

SpecRegister == Init /\ [][NextRegister]_vars

-----------------------------------------------------------------------------
(* Properties *)

ApiOps == {"login", "logout", "register", "create", "update", "partial_update",
           "destroy", "deactivate", "activate", "set_role", "change_password"}

\* The row of the root admin is in table with its identity, role and flags
RootAdminRecord(table) ==
    /\ 1 \in DOMAIN table
    /\ table[1].id = 1
    /\ table[1].userid = "admin"
    /\ table[1].role = "super_admin"
    /\ table[1].is_system_admin
    /\ table[1].is_active

\* Present(valid): the root admin exists and its hash verifies against the
\* password configured by env
PresentValid(db, env) ==
    /\ 1 \in DOMAIN db.users
    /\ db.users[1].userid = "admin"
    /\ db.users[1].role = "super_admin"
    /\ db.users[1].is_system_admin
    /\ check_password(db.users[1], get_admin_password(env))

StoreUnchanged == UNCHANGED <<users, tokens, activities, next_id>>

\* C1: once a process of the service has run its startup check, every state
\* reached through the service's operations holds exactly one record with
\* id 1, userid 'admin', role super_admin, the system-admin flag and is_active,
\* and no other record carries that id, userid or flag.
RootAdminInvariant ==
    started # "none" =>
        /\ RootAdminRecord(users)
        /\ \A i \in DOMAIN users :
               (users[i].id = 1 \/ users[i].userid = "admin" \/ users[i].is_system_admin)
                   => i = 1

\* C1 witness: next to another account, the root admin has just asked for its
\* own deactivation and is still active
RootAdminSurvivesOperations ==
    /\ started = "server"
    /\ response.op = "deactivate"
    /\ response.subject = 1
    /\ 2 \in DOMAIN users
    /\ RootAdminRecord(users)

IdentityChangeRejected ==
    [][\A userid \in GuardUserids, sysadmin \in BOOLEAN, role \in GuardRoles :
          (/\ 1 \in DOMAIN users
           /\ is_system_root_admin(users[1])
           /\ (userid # "admin" \/ ~sysadmin)
           /\ ModelSaveCall(userid, sysadmin, role))
              => (response'.exc # "none" /\ StoreUnchanged)]_vars

ChangePasswordProtected ==
    /\ (response.op = "change_password" /\ response.subject = 1)
          => /\ response.status = 403
             /\ response.code = "SYSTEM_ADMIN_PROTECTION"
             /\ response.exc = "SystemAdminProtectionError"
             /\ ~response.wrote
    /\ \A i \in 1..Len(activities) :
          ~(activities[i].user = 1 /\ activities[i].action = "change_password")

\* C5 witness: the root admin has sent a change-password request
RootAdminAskedChangePassword ==
    /\ response.op = "change_password"
    /\ response.subject = 1
    /\ response.status = 403

\* C6: no API request changes the stored password hash of user 1.
ApiKeepsRootHash ==
    [][(response'.op \in ApiOps /\ 1 \in DOMAIN users /\ 1 \in DOMAIN users')
          => users'[1].passwd = users[1].passwd]_vars

\* C7: the startup check writes nothing when the root admin is present and its
\* hash verifies against the configured password, and a second check right
\* after a first one writes nothing and leaves the first one's state.
SelfHealIdempotent ==
    LET once == ensure_system_admin_on_startup(DB, env_ADMIN_PASSWORD)
        twice == ensure_system_admin_on_startup([once.db EXCEPT !.writes = 0],
                                                env_ADMIN_PASSWORD)
    IN /\ PresentValid(DB, env_ADMIN_PASSWORD) => once.db = DB
       /\ twice.db = [once.db EXCEPT !.writes = 0]
       /\ (response.op = "startup" /\ ~response.wrote)
             => PresentValid(DB, env_ADMIN_PASSWORD)

\* C7 witness: a startup check has found the root admin in sync and has
\* written nothing
StartupCheckWroteNothing ==
    /\ response.op = "startup"
    /\ ~response.wrote
    /\ PresentValid(DB, env_ADMIN_PASSWORD)

\* C8: from every reachable state the startup check ends without an error in
\* a state where the root admin is Present(valid), and every state a startup
\* check has just left is such a state.
StartupConverges ==
    LET r == ensure_system_admin_on_startup(DB, env_ADMIN_PASSWORD) IN
    /\ r.exc = "none"
    /\ PresentValid(r.db, env_ADMIN_PASSWORD)
    /\ response.op = "startup" => PresentValid(DB, env_ADMIN_PASSWORD)

\* C8 witness: a startup check has rotated the hash of an account that was
\* there before (another account exists) to the password of the environment
StartupCheckRotated ==
    /\ response.op = "startup"
    /\ response.wrote
    /\ 2 \in DOMAIN users
    /\ env_ADMIN_PASSWORD # NoneVal
    /\ check_password(users[1], env_ADMIN_PASSWORD)

\* C9: an API request the guardian rejects leaves every table as it was.
NoPartialApplication ==
    [][(response'.op \in ApiOps /\ response'.exc \in GuardianErrors)
          => StoreUnchanged]_vars

\* C9 witness: an update request on user 1 was rejected for its role, and the
\* password it offered as the current one still verifies
UpdateRejectedWhole ==
    /\ response.op = "update"
    /\ response.subject = 1
    /\ response.role = "student"
    /\ response.exc = "ValueError_role"
    /\ ~response.wrote
    /\ check_password(users[1], "admin123")

\* C10: every API request the guardian rejects is answered 403 with the
\* protection code.
GuardianAnswers403 ==
    (response.op \in ApiOps /\ response.exc \in GuardianErrors)
        => (response.status = 403 /\ response.code = "SYSTEM_ADMIN_PROTECTION")

-----------------------------------------------------------------------------
(* The authorization decision *)

\* The last step was a request through the middleware, made by a user the
\* middleware authenticated
MiddlewareAnswered == response.op = "middleware"

AuthenticatedRequest ==
    /\ MiddlewareAnswered
    /\ ~is_public_path(response.path)
    /\ response.subject # NoPk

\* The path is /api/v1/users/{id}/..., with an id that is neither the id nor
\* the userid of user
AddressesOtherUser(path, user) ==
    /\ IsPrefix(UsersPath, path)
    /\ Len(path) >= 4
    /\ isdigit(path[4])
    /\ path[4] # ToString(user.id)
    /\ path[4] # user.userid

\* C11: a request of the root admin or of a user with role super_admin is
\* allowed by the middleware, whatever its method and its non-public path
SuperAdminBypass ==
    (/\ AuthenticatedRequest
     /\ \/ is_system_root_admin(users[response.subject])
        \/ users[response.subject].role = "super_admin")
        => response.code = "allow"

\* C12: a GET of a student on the detail path of another user is denied by
\* the middleware, with INSUFFICIENT_PERMISSIONS or RESOURCE_OWNERSHIP_REQUIRED
StudentDetailDenied ==
    (/\ AuthenticatedRequest
     /\ users[response.subject].role = "student"
     /\ response.method = "GET"
     /\ Len(response.path) = 4
     /\ AddressesOtherUser(response.path, users[response.subject]))
        => response.code \in {"INSUFFICIENT_PERMISSIONS", "RESOURCE_OWNERSHIP_REQUIRED"}

\* C13: a request with a non-safe method on a path that addresses another
\* user's id, made by a user who is neither super admin nor competition admin,
\* is denied by the middleware
OwnershipEnforced ==
    (/\ AuthenticatedRequest
     /\ users[response.subject].role \notin {"super_admin", "competition_admin"}
     /\ response.method \notin {"GET", "HEAD", "OPTIONS"}
     /\ AddressesOtherUser(response.path, users[response.subject]))
        => response.code # "allow"

\* C14: a request without an Authorization header to a path of PUBLIC_PATHS, or
\* under a prefix of PUBLIC_PATH_PREFIXES, is allowed by the middleware and no
\* user is authenticated for it, whatever the method and the store
PublicPathsAllowed ==
    (/\ MiddlewareAnswered
     /\ response.cred = NoCredential
     /\ \/ response.path \in PUBLIC_PATHS
        \/ \E prefix \in PUBLIC_PATH_PREFIXES : IsPrefix(prefix, response.path))
        => /\ response.code = "allow"
           /\ response.subject = NoPk

\* C14 witness: a DELETE without header under /static/ was allowed while the
\* store holds users
PublicPathAllowedAnonymous ==
    /\ MiddlewareAnswered
    /\ response.cred = NoCredential
    /\ response.path = <<"static", "app.js">>
    /\ response.method = "DELETE"
    /\ response.code = "allow"
    /\ DOMAIN users = {1, 2}

\* C15: GET /health/ and POST /api/v1/auth/login/ without credentials pass the
\* middleware without a 401
ServedPublicRoutesPass ==
    (/\ MiddlewareAnswered
     /\ response.cred = NoCredential
     /\ \/ response.path = <<"health">> /\ response.method = "GET"
        \/ response.path = AuthPath("login") /\ response.method = "POST")
        => response.status # 401

\* The header resolves to no principal: there is none, its scheme is unknown,
\* it is a Bearer token that is not signed by the server, has expired or has
\* no exp, or an opaque key that no token of an active user has
Unresolvable(cred) ==
    \/ cred.scheme \in {"none", "Basic"}
    \/ /\ cred.scheme = "Bearer"
       /\ ~cred.signed \/ ~cred.has_exp \/ cred.exp < Now
    \/ /\ cred.scheme = "Token"
       /\ \/ cred.key \notin tokens
          \/ cred.key \notin DOMAIN users
          \/ ~users[cred.key].is_active

\* C16: a request to a non-public path whose credentials resolve to no
\* principal is answered 401 AUTHENTICATION_REQUIRED, never allowed
FailClosed ==
    (/\ MiddlewareAnswered
     /\ ~is_public_path(response.path)
     /\ Unresolvable(response.cred))
        => /\ response.status = 401
           /\ response.code = "AUTHENTICATION_REQUIRED"

\* C16 witness: the token of a deactivated user was presented on a path that
\* asks for authentication only, and the answer was 401
InactiveTokenRefused ==
    /\ MiddlewareAnswered
    /\ response.cred = TokenOf(2)
    /\ 2 \in DOMAIN users
    /\ 2 \in tokens
    /\ ~users[2].is_active
    /\ response.path = UsersPath \o <<"1", "deactivate">>
    /\ response.code = "AUTHENTICATION_REQUIRED"

InactiveNeverAuthenticates ==
    /\ (/\ MiddlewareAnswered
        /\ response.cred.scheme \in {"Token", "Bearer"}
        /\ response.cred.key \in DOMAIN users
        /\ ~users[response.cred.key].is_active)
       => response.subject = NoPk
    /\ (/\ response.op = "login"
        /\ response.subject \in DOMAIN users
        /\ ~users[response.subject].is_active)
       => /\ response.status \notin 200..299
          /\ ~response.wrote

\* In a deployment with a signing secret, an unexpired access token signed by
\* the server and naming deactivated user 2, whose opaque key is still stored,
\* was presented and resolved to nobody
InactiveSignedTokenRefused ==
    /\ MiddlewareAnswered
    /\ jwt_secret # NoneVal
    /\ response.cred = TypedBearer("access", TRUE, Now + 1, 2)
    /\ 2 \in DOMAIN users
    /\ ~users[2].is_active
    /\ 2 \in tokens
    /\ response.subject = NoPk
    /\ response.code = "AUTHENTICATION_REQUIRED"

\* C28: token type separation.  A signed token whose type is 'refresh' is
\* never resolved to a principal by the middleware's credential resolver, and
\* a token whose type is not 'refresh' never makes refresh_token return new
\* tokens.
TokenTypesSeparated ==
    /\ (/\ MiddlewareAnswered
        /\ response.cred.scheme = "Bearer"
        /\ response.cred.type = "refresh")
       => response.subject = NoPk
    /\ (/\ response.op = "refresh_token"
        /\ response.cred.type # "refresh")
       => response.subject = NoPk

-----------------------------------------------------------------------------
(* Login and password change *)

\* C18: a login with the userid and the password of a deactivated user is
\* answered 401 and writes nothing: no token, no last_login, no activity
InactiveLoginUnauthorized ==
    [][\A userid \in LoginUserids, password \in LoginPasswords :
          (/\ userid_exists(DB, userid)
           /\ ~users[UserByUserid(DB, userid)].is_active
           /\ check_password(users[UserByUserid(DB, userid)], password)
           /\ LoginRequest(NoCredential, userid, password))
              => /\ response'.status = 401
                 /\ ~response'.wrote
                 /\ tokens' = tokens
                 /\ users' = users
                 /\ activities' = activities]_vars

\* C20: a change-password request whose current_password does not verify
\* against the stored hash of the caller fails and leaves the hash as it was
WrongCurrentPasswordRefused ==
    [][\A cred \in TokenCredentials, data \in ChangePasswordData :
          (/\ Caller(cred) # NoPk
           /\ data.current_password # NoneVal
           /\ ~check_password(users[Caller(cred)], data.current_password)
           /\ ChangePasswordRequest(cred, data))
              => /\ response'.status >= 400
                 /\ Caller(cred) \in DOMAIN users'
                 /\ users'[Caller(cred)].passwd = users[Caller(cred)].passwd]_vars

\* C19: of two well-formed change-password requests of one user (not the root
\* admin, whose password no request may change) that were both received while
\* their common current_password verified against the stored hash, exactly one
\* succeeds
ConcurrentChangeOneWins ==
    (/\ \A r \in Requests : inflight[r].pc = "done"
     /\ inflight["a"].received.id # NoPk
     /\ ~is_system_root_admin(inflight["a"].received)
     /\ \A r \in Requests :
            inflight[r].data.new_password = inflight[r].data.new_password_confirm
     /\ inflight["a"].received.id = inflight["b"].received.id
     /\ inflight["a"].data.current_password = inflight["b"].data.current_password
     /\ \A r \in Requests :
            /\ inflight[r].data.current_password # NoneVal
            /\ check_password(inflight[r].received, inflight[r].data.current_password))
        => Cardinality({r \in Requests : inflight[r].status = 204}) = 1

-----------------------------------------------------------------------------
(* Sessions and the audit trail *)

\* C21: logout invalidates the opaque key.  A key whose logout has just been
\* answered 204, and every generated key that does not resolve to a principal,
\* does not resolve in the next state either, whatever the step is -- a new
\* login of the same principal included, which stores another key.
LogoutInvalidatesKey ==
    [][\A key \in SessionKeys :
          (\/ /\ response'.op = "logout"
              /\ response'.status = 204
              /\ response'.key = key
           \/ /\ key <= token_keys.issued
              /\ SessionResolves(key) = NoPk)
          => SessionResolves(key)' = NoPk]_vars

\* The root admin logged in, logged out and logged in again: the first key
\* resolves to nobody, the second to the root admin
LoggedInAgain ==
    /\ response.op = "login"
    /\ response.status = 200
    /\ token_keys.issued = 2
    /\ SessionResolves(1) = NoPk
    /\ SessionResolves(2) = 1

\* C22: activity records are append-only.  Every step leaves the rows the
\* activity table held in place and unmodified, and adds new rows after them
\* only -- the deletion of the user a row references included.
ActivitiesAppendOnly ==
    [][/\ Len(activities') >= Len(activities)
       /\ SubSeq(activities', 1, Len(activities)) = activities]_vars

\* The operations the audit trail records, with the action tag of each
AuditedOps == {"login", "logout", "register", "create", "update", "partial_update",
               "set_role", "change_password", "deactivate", "activate"}

ActionTag(op) ==
    CASE op \in {"register", "create"} -> "register"
      [] op \in {"update", "partial_update", "set_role"} -> "update_profile"
      [] OTHER -> op

-----------------------------------------------------------------------------
(* The permission tables *)

\* C24: has_permission(R, P) is true exactly when P is in
\* get_role_permissions(R); get_role_permissions('super_admin') is the whole
\* Permission catalog and holds the set of every role.
PermissionLookupExact ==
    response.op = "has_permission" =>
        /\ response.result <=> response.permission \in response.granted
        /\ response.role = "super_admin" => response.granted = Permission
        /\ response.granted \subseteq get_role_permissions("super_admin")

\* has_permission was asked whether a student may create users, and said no
StudentLacksUserCreate ==
    /\ response.op = "has_permission"
    /\ response.role = "student"
    /\ response.permission = "user:create"
    /\ ~response.result
    /\ "user:read" \in response.granted

\* C25: unknown roles fail closed.  For a role string outside the four
\* roles get_role_permissions is empty and has_permission and
\* has_any_permission are false for every permission, and the middleware
\* denies a principal with such a role on every path that is neither public
\* nor auth-only.
UnknownRolesFailClosed ==
    /\ \A role \in QueriedRoles \ ROLE_CHOICES :
          /\ get_role_permissions(role) = {}
          /\ \A permission \in QueriedPermissions : ~has_permission(role, permission)
          /\ \A permissions \in PermissionLists : ~has_any_permission(role, permissions)
    /\ (/\ response.op = "routed"
        /\ response.subject # NoPk
        /\ response.role \notin ROLE_CHOICES
        /\ ~is_public_path(response.path)
        /\ ~is_auth_only_path(response.path))
       => response.code # "allow"

\* get_required_permissions was called for /api/v1/users/{id}/
SingleUserPathAsked ==
    /\ response.op = "get_required_permissions"
    /\ Len(response.path) = 4
    /\ SubSeq(response.path, 1, 3) = UsersPath
    /\ isdigit(response.path[4])

\* C26: for every path /api/v1/users/{id}/ get_required_permissions returns
\* {user:read} for GET and the generic fallback {user:update} for PUT, PATCH
\* and DELETE.
SingleUserPathFallback ==
    SingleUserPathAsked =>
        /\ response.method = "GET" => response.required = {"user:read"}
        /\ response.method \in {"PUT", "PATCH", "DELETE"} =>
              response.required = {"user:update"}

\* C30: layer consistency.  On every routed endpoint, when the authenticated
\* principal satisfies the requirement the view declares with its decorator,
\* the RBAC middleware does not deny the request.
LayersConsistent ==
    (response.op = "routed" /\ response.declared) => response.code = "allow"

-----------------------------------------------------------------------------
(* Registration *)

\* The request just answered was a registration by an active super admin for
\* a userid of valid format that no stored user had, with a valid password
\* given twice
FreshRegistration ==
    /\ response'.op \in {"register", "create"}
    /\ LET user == RequestUser(response'.cred)
           data == response'.data
       IN /\ user.is_active
          /\ is_super_admin(user)
          /\ ~userid_exists(DB, data.userid)
          /\ UseridFacts[data.userid].len >= 3
          /\ UseridFacts[data.userid].alnum
          /\ validate_password_strength(data.password)
          /\ data.password = data.password_confirm
          /\ data.role \in ROLE_CHOICES

\* C29: a register or user-create request by a super admin with a userid that
\* is not in the store, a valid userid format and a valid matching password is
\* answered 201 and leaves a new active user with that userid and role, however
\* many users were registered through the API before.
RegistrationSucceedsWhenFresh ==
    [][FreshRegistration =>
          /\ response'.status = 201
          /\ \E pk \in DOMAIN users' :
                /\ pk \notin DOMAIN users
                /\ users'[pk].userid = response'.data.userid
                /\ users'[pk].role = response'.data.role
                /\ users'[pk].is_active]_vars

====
